---- MODULE Spec2Model ----
(***************************************************************************)
(* Verification model of the LLM-Agents backend: document retrieval and   *)
(* ranking (backend/src/apis/documents.py), document chunking             *)
(* (backend/src/agents/document_processor.py) and authentication / RBAC   *)
(* (backend/src/apis/auth.py, backend/src/common/dependencies.py,         *)
(* backend/src/apis/admin).                                               *)
(***************************************************************************)
EXTENDS Integers, Sequences, FiniteSets, TLC

(***************************************************************************)
(* Bounds of the model.                                                    *)
(***************************************************************************)
MaxDim == 2        \* longest embedding vector drawn for the similarity helper
MaxVal == 1        \* embedding components range over -MaxVal..MaxVal
MaxPieces == 2     \* longest uploaded text, in pieces
MaxDocs == 2       \* uploads accepted before the model stops uploading
MaxChunks == 6     \* most chunks of a document in the ranking scenarios
MaxUsers == 2      \* rows the users table can hold
MaxRoles == 2      \* rows the roles table can hold
MaxConnections == 1 \* rows the databases table can hold
MaxTicks == 2      \* times the clock advances

VARIABLES
    vec1, vec2, similarity,     \* inputs and result of _calculate_similarity
    documents,                  \* mongo_db.documents: set of document records
    document_chunks,            \* mongo_db.document_chunks, in insertion order
    next_doc_id,                \* next ObjectId the store hands out
    request,                    \* the last HTTP request handled
    response,                   \* the HTTP response it was given
    outbound,                   \* calls it made to the embedding / chat services
    store_faulty,               \* whether the document store can raise in this run
    users,                      \* PostgreSQL table users (with the user_role links)
    roles,                      \* PostgreSQL table roles (with the role_permission links)
    databases,                  \* PostgreSQL table databases
    bearer,                     \* the bearer token the client presents
    now,                        \* the server clock, in minutes
    database_connections,       \* mongo_db.database_connections
    query_history,              \* mongo_db.query_history, in insertion order
    engine,                     \* self.engine of the MCP server's global SQLAgent
    doc_text, doc_chunk_size,   \* arguments of one _split_text call
    doc_chunks,                 \* the chunks it returned
    sql_context,                \* self.context of the MCP server's global SQLAgent
    doc_agent_state,            \* agent_state of the MCP server's DocumentProcessor
    session, transport,         \* AgentMCPClient.session and the websocket under it
    test_documents,             \* test_main.py: the list documents (ids, in order)
    test_document_chunks,       \* test_main.py: the list document_chunks
    doc_objects,                \* test_main.py: the document dicts, by id
    tasks,                      \* test_main.py: the process_document_task coroutines
    files                       \* test_main.py: the files in the uploads directory

simVars == <<vec1, vec2, similarity>>
docVars == <<documents, document_chunks, next_doc_id, request, response, outbound,
             store_faulty>>
authVars == <<users, roles, databases, bearer, now>>
sqlVars == <<database_connections, query_history, engine>>
splitVars == <<doc_text, doc_chunk_size, doc_chunks>>
agentVars == <<sql_context, doc_agent_state, session, transport>>
taskVars == <<test_documents, test_document_chunks, doc_objects, tasks, files>>
vars == <<vec1, vec2, similarity, documents, document_chunks, next_doc_id,
          request, response, outbound, store_faulty, users, roles, databases,
          bearer, now, database_connections, query_history, engine,
          doc_text, doc_chunk_size, doc_chunks, sql_context, doc_agent_state,
          session, transport, test_documents, test_document_chunks, doc_objects,
          tasks, files>>

Min(a, b) == IF a < b THEN a ELSE b

RECURSIVE SumSeq(_)
SumSeq(s) == IF s = <<>> THEN 0 ELSE Head(s) + SumSeq(Tail(s))

(***************************************************************************)
(* Vectors: lists of numbers.  Components are integers, so every sum of   *)
(* products is exact.                                                      *)
(***************************************************************************)
EmbVals == (0 - MaxVal)..MaxVal
Vectors == UNION {[1..n -> EmbVals] : n \in 0..MaxDim}

\* sum(a * b for a, b in zip(vec1, vec2)): zip stops at the shorter list
dot_product(v1, v2) ==
    SumSeq([i \in 1..Min(Len(v1), Len(v2)) |-> v1[i] * v2[i]])

\* sum(a * a for a in vec): the square of the magnitude.  The magnitude
\* itself is the square root of this number; it is 0 exactly when this is 0.
SqMagnitude(v) == SumSeq([i \in 1..Len(v) |-> v[i] * v[i]])

\* Results of the helper.  A quotient dot / sqrt(densq) is kept exact as
\* the pair (num, densq); the literal 0 of the guard is num = 0, densq = 1.
ZeroDivisionError == [raised |-> "ZeroDivisionError"]
Quotient(n, dsq) == [num |-> n, densq |-> dsq]
LiteralZero == Quotient(0, 1)

\* dot_product / (magnitude1 * magnitude2): Python raises on a zero divisor
Divide(n, dsq) == IF dsq = 0 THEN ZeroDivisionError ELSE Quotient(n, dsq)

calculate_similarity_unguarded2(v1, v2) ==
    IF SqMagnitude(v1) = 0
    THEN LiteralZero
    ELSE Divide(dot_product(v1, v2), SqMagnitude(v1) * SqMagnitude(v2))

\* _calculate_similarity(vec1, vec2), documents.py:231-240
calculate_similarity(v1, v2) ==
    IF SqMagnitude(v1) * SqMagnitude(v2) = 0
    THEN LiteralZero
    ELSE Divide(dot_product(v1, v2), SqMagnitude(v1) * SqMagnitude(v2))


(***************************************************************************)
(* Ordering of similarity values.  dot / sqrt(densq) is compared exactly  *)
(* through signs and squares.                                              *)
(***************************************************************************)
Sign(n) == IF n > 0 THEN 1 ELSE IF n < 0 THEN 0 - 1 ELSE 0

SimLess(a, b) ==
    LET sa == Sign(a.num)
        sb == Sign(b.num)
    IN  IF sa # sb THEN sa < sb
        ELSE IF sa = 0 THEN FALSE
        ELSE IF sa > 0 THEN a.num * a.num * b.densq < b.num * b.num * a.densq
        ELSE a.num * a.num * b.densq > b.num * b.num * a.densq

SimEqual(a, b) == ~SimLess(a, b) /\ ~SimLess(b, a)

(***************************************************************************)
(* Document text and chunking (document_processor.py).                     *)
(* A text is a sequence of pieces: 0 is a run of whitespace, n > 0 is a   *)
(* run of n non-blank characters.  A word is written as its length; a     *)
(* chunk (" ".join of words) is written as its list of words.             *)
(***************************************************************************)
TextPieces == {0, 600}
Texts == UNION {[1..n -> TextPieces] : n \in 0..MaxPieces}

\* text.split(): maximal runs of non-blank characters
RECURSIVE SplitWords(_, _, _)
SplitWords(text, words, run) ==
    IF text = <<>>
    THEN IF run > 0 THEN Append(words, run) ELSE words
    ELSE IF Head(text) = 0
         THEN SplitWords(Tail(text), IF run > 0 THEN Append(words, run) ELSE words, 0)
         ELSE SplitWords(Tail(text), words, run + Head(text))

split(text) == SplitWords(text, <<>>, 0)

\* len(" ".join(words))
JoinedLen(words) == IF words = <<>> THEN 0 ELSE SumSeq(words) + (Len(words) - 1)

\* the for loop and the final flush of _split_text
RECURSIVE SplitLoop(_, _, _, _, _)
SplitLoop(words, chunk_size, chunks, current_chunk, current_size) ==
    IF words = <<>>
    THEN IF current_chunk # <<>> THEN Append(chunks, current_chunk) ELSE chunks
    ELSE LET word == Head(words)
         IN  IF current_size + word + 1 > chunk_size
             THEN SplitLoop(Tail(words), chunk_size,
                            Append(chunks, current_chunk), <<word>>, word)
             ELSE SplitLoop(Tail(words), chunk_size, chunks,
                            Append(current_chunk, word), current_size + word + 1)

split_text_no_flush(text, chunk_size) ==
    LET chunks == SplitLoop(split(text), chunk_size, <<>>, <<>>, 0)
    IN  SubSeq(chunks, 1, Len(chunks) - 1)

\* DocumentProcessor._split_text(text, chunk_size)
split_text(text, chunk_size) == SplitLoop(split(text), chunk_size, <<>>, <<>>, 0)

\* default chunk_size of process_document
DefaultChunkSize == 1000

\* supported_formats of DocumentProcessor.__init__
supported_formats == {".pdf", ".docx", ".txt", ".csv", ".xlsx"}

\* uploaded file names: stem and suffix as Path(file_path).suffix reads them
Filenames == {[stem |-> "a", suffix |-> ".txt"],
              [stem |-> "b", suffix |-> ".PDF"],
              [stem |-> "c", suffix |-> ".exe"]}

\* str.lower() on the suffixes in use
lower(s) == IF s = ".PDF" THEN ".pdf" ELSE s

\* The embedding service is a function of its input text with a fixed
\* output size.  _get_embedding on a chunk:
chunk_embedding(chunk) ==
    IF chunk = <<>> THEN <<0, 1>>
    ELSE IF JoinedLen(chunk) <= 600 THEN <<1, 0>>
    ELSE <<1, 1>>


(***************************************************************************)
(* HTTP plumbing shared by the handlers.                                   *)
(***************************************************************************)
NoRequest == [op |-> "none"]
NoResponse == [op |-> "none", status |-> 0]

Return(body) == [kind |-> "return", body |-> body]
Raise(type, status_code, detail) ==
    [kind |-> "raise", type |-> type, status_code |-> status_code, detail |-> detail]

\* raise HTTPException(status_code=..., detail=...)
HTTPException(status_code, detail) == Raise("HTTPException", status_code, detail)

\* a handler whose body is not wrapped: FastAPI turns a return into 200
\* and an HTTPException into its own status code
Unwrapped(outcome) ==
    IF outcome.kind = "return"
    THEN [status |-> 200, body |-> outcome.body]
    ELSE [status |-> outcome.status_code, body |-> [detail |-> outcome.detail]]

\* try: ... except Exception as e: raise HTTPException(status_code=500,
\* detail=str(e)).  HTTPException is an Exception, so it is caught as well.
ExceptException(outcome) ==
    IF outcome.kind = "return"
    THEN [status |-> 200, body |-> outcome.body]
    ELSE [status |-> 500, body |-> [detail |-> outcome.detail]]

(***************************************************************************)
(* The document store.                                                     *)
(***************************************************************************)
UserIds == {1, 2}

\* document ids as the client sends them: the hex string of ObjectId k is
\* written k; MalformedId is a string ObjectId() rejects with InvalidId
MalformedId == 0
IdStrings == 0..MaxDocs

\* mongo_db.documents.find_one({"_id": id})
FindDocument(docs, id) ==
    IF \E d \in docs : d._id = id
    THEN {CHOOSE d \in docs : d._id = id}
    ELSE {}

\* mongo_db.documents.find_one({"_id": id, "user_id": user_id})
FindOwnedDocument(docs, id, user_id) ==
    {d \in FindDocument(docs, id) : d.user_id = user_id}

\* mongo_db.document_chunks.find({"document_id": {"$in": object_ids}})
FindChunks(chunks, object_ids) ==
    SelectSeq(chunks, LAMBDA c : c.document_id \in object_ids)

ChunksOf(id) == FindChunks(document_chunks, {id})

(***************************************************************************)
(* POST /documents/upload (documents.py:29-73) with                        *)
(* DocumentProcessor.process_document (document_processor.py:31-85).       *)
(***************************************************************************)
\* chunk_data built by process_document for chunk i of chunks
ChunkData(chunks, i) ==
    [text |-> chunks[i], embedding |-> chunk_embedding(chunks[i]), chunk_id |-> i - 1]

\* What the environment does to one upload: nothing, or the extraction, an
\* embedding call or an insert raises.  inserted counts the insert_one
\* calls that succeeded before the store raised.
NoFault == [at |-> "none", inserted |-> 0]
UploadFaults(file, chunks) ==
    IF lower(file.suffix) \notin supported_formats
    THEN {NoFault}
    ELSE {NoFault, [at |-> "extract", inserted |-> 0]}
         \cup (IF chunks = <<>> THEN {} ELSE {[at |-> "embedding", inserted |-> 0]})
         \cup {[at |-> "insert", inserted |-> k] : k \in 0..Len(chunks)}

\* process_document: the chunks with their embeddings, or the exception
process_document(file, text, fault) ==
    IF lower(file.suffix) \notin supported_formats
    THEN Raise("ValueError", 0, "Unsupported file format")
    ELSE IF fault.at = "extract"
    THEN Raise("Exception", 0, "extraction failed")
    ELSE LET chunks == split_text(text, DefaultChunkSize)
         IN  IF fault.at = "embedding"
             THEN Raise("Exception", 0, "embedding failed")
             ELSE Return([i \in 1..Len(chunks) |-> ChunkData(chunks, i)])

\* the _get_embedding calls process_document makes: one per chunk, up to
\* and including the first that raises
EmbeddingCalls(file, text, fault) ==
    LET chunks == split_text(text, DefaultChunkSize)
    IN  IF lower(file.suffix) \notin supported_formats \/ fault.at = "extract"
        THEN <<>>
        ELSE [i \in 1..(IF fault.at = "embedding" THEN 1 ELSE Len(chunks)) |->
                [api |-> "embeddings", input |-> chunks[i]]]

\* the chunk records of one upload, as stored
StoredChunks(chunks, document_id) ==
    [i \in 1..Len(chunks) |->
        [document_id |-> document_id, text |-> chunks[i].text,
         embedding |-> chunks[i].embedding, chunk_id |-> chunks[i].chunk_id]]

Prefix(s, n) == SubSeq(s, 1, n)

InsertFailed == Raise("PyMongoError", 0, "insert failed")

UploadDocument ==
    \E user_id \in UserIds, file \in Filenames, text \in Texts :
    \E fault \in UploadFaults(file, split_text(text, DefaultChunkSize)) :
    LET processed == process_document(file, text, fault)
        n == IF processed.kind = "return" THEN Len(processed.body) ELSE 0
        document == [_id |-> next_doc_id, user_id |-> user_id,
                     filename |-> file, chunk_count |-> n]
    IN  /\ next_doc_id <= MaxDocs
        /\ fault.at = "insert" => store_faulty
        /\ request' = [op |-> "upload", user_id |-> user_id, file |-> file, text |-> text]
        /\ outbound' = EmbeddingCalls(file, text, fault)
        /\ IF processed.kind = "raise"
           THEN /\ response' = [op |-> "upload"] @@ ExceptException(processed)
                /\ UNCHANGED <<documents, document_chunks, next_doc_id>>
           ELSE IF fault.at = "insert" /\ fault.inserted = 0
           THEN /\ response' = [op |-> "upload"] @@ ExceptException(InsertFailed)
                /\ UNCHANGED <<documents, document_chunks, next_doc_id>>
           ELSE IF fault.at = "insert"
           THEN /\ response' = [op |-> "upload"] @@ ExceptException(InsertFailed)
                /\ documents' = documents \cup {document}
                /\ next_doc_id' = next_doc_id + 1
                /\ document_chunks' = document_chunks \o
                        Prefix(StoredChunks(processed.body, next_doc_id), fault.inserted - 1)
           ELSE /\ response' = [op |-> "upload"] @@ ExceptException(Return(
                        [document_id |-> next_doc_id, filename |-> file,
                         chunk_count |-> n, status |-> "success"]))
                /\ documents' = documents \cup {document}
                /\ next_doc_id' = next_doc_id + 1
                /\ document_chunks' = document_chunks \o
                        StoredChunks(processed.body, next_doc_id)
        /\ UNCHANGED store_faulty
        /\ UNCHANGED <<simVars, sqlVars, splitVars, agentVars, taskVars, authVars>>

(***************************************************************************)
(* DELETE /documents/{document_id} (documents.py:99-131).                  *)
(***************************************************************************)
\* mongo_db.documents.delete_one({"_id": id})
delete_one(docs, id) == {d \in docs : d._id # id}

\* a delete_many that matches no chunk
delete_many_none(chunks, id) == chunks

\* mongo_db.document_chunks.delete_many({"document_id": id})
delete_many(chunks, id) == SelectSeq(chunks, LAMBDA c : c.document_id # id)

DeleteDocument ==
    \E user_id \in UserIds, document_id \in IdStrings,
       store_fails \in {"never", "delete_one", "delete_many"} :
    LET found == IF document_id = MalformedId THEN {}
                 ELSE FindOwnedDocument(documents, document_id, user_id)
    IN
        /\ store_fails # "never" => store_faulty /\ found # {}
        /\ request' = [op |-> "delete", user_id |-> user_id, document_id |-> document_id]
        /\ outbound' = <<>>
        /\ UNCHANGED <<next_doc_id, store_faulty>>
        /\ IF document_id = MalformedId
           THEN /\ response' = [op |-> "delete"] @@
                        ExceptException(Raise("InvalidId", 0, "not a valid ObjectId"))
                /\ UNCHANGED <<documents, document_chunks>>
           ELSE IF found = {}
           THEN /\ response' = [op |-> "delete"] @@
                        ExceptException(HTTPException(404, "Document not found"))
                /\ UNCHANGED <<documents, document_chunks>>
           ELSE IF store_fails = "delete_one"
           THEN /\ response' = [op |-> "delete"] @@
                        ExceptException(Raise("PyMongoError", 0, "delete failed"))
                /\ UNCHANGED <<documents, document_chunks>>
           ELSE /\ documents' = delete_one(documents, document_id)
                /\ IF store_fails = "delete_many"
                   THEN /\ response' = [op |-> "delete"] @@
                                ExceptException(Raise("PyMongoError", 0, "delete failed"))
                        /\ UNCHANGED document_chunks
                   ELSE /\ response' = [op |-> "delete"] @@
                                ExceptException(Return([status |-> "success"]))
                        /\ document_chunks' = delete_many(document_chunks, document_id)
        /\ UNCHANGED <<simVars, sqlVars, splitVars, agentVars, taskVars, authVars>>

(***************************************************************************)
(* POST /documents/query (documents.py:133-229).                           *)
(***************************************************************************)
\* prompts are strings over a blank and a letter
Blank == " "
Prompts == {<<>>, <<Blank>>, <<"q">>, <<Blank, "q">>}

\* _get_embedding on a prompt
prompt_embedding(prompt) == IF Head(prompt) = Blank THEN <<0, 1>> ELSE <<1, 0>>

\* str.strip(): drop leading and trailing whitespace
RECURSIVE lstrip(_)
lstrip(str) == IF str # <<>> /\ Head(str) = Blank THEN lstrip(Tail(str)) ELSE str

RECURSIVE rstrip(_)
rstrip(str) ==
    IF str # <<>> /\ str[Len(str)] = Blank THEN rstrip(SubSeq(str, 1, Len(str) - 1)) ELSE str

strip(str) == rstrip(lstrip(str))

\* request bodies: either key may be absent; document_ids is a list of id
\* strings (written as the set of its members) or one bare id string
QueryRequest(user_id, has_prompt, prompt, ids_kind, ids) ==
    [op |-> "query", user_id |-> user_id, has_prompt |-> has_prompt,
     prompt |-> prompt, ids_kind |-> ids_kind, ids |-> ids]

DocumentIdInputs ==
    {[kind |-> "missing", ids |-> {}]}
    \cup {[kind |-> "list", ids |-> ids] : ids \in SUBSET IdStrings}
    \cup {[kind |-> "str", ids |-> {id}] : id \in IdStrings}

PromptInputs ==
    {[has |-> FALSE, prompt |-> <<>>]} \cup {[has |-> TRUE, prompt |-> p] : p \in Prompts}

\* the requests sent: every prompt with one list of ids, and every shape of
\* document_ids with a prompt that passes validation
QueryRequests ==
    {QueryRequest(1, p.has, p.prompt, "list", ids) :
        p \in PromptInputs, ids \in {{1}, IdStrings \ {MalformedId}}}
    \cup {QueryRequest(u, TRUE, <<"q">>, d.kind, d.ids) :
        u \in UserIds, d \in DocumentIdInputs}

\* What the environment does to one query: nothing, or the embedding call
\* or the completion call raises.
QueryFaults(req, chunks) ==
    IF ~req.has_prompt \/ strip(req.prompt) = <<>> \/ req.ids = {}
    THEN {"none"}
    ELSE IF MalformedId \in req.ids \/ FindChunks(chunks, req.ids) = <<>>
    THEN {"none", "embedding"}
    ELSE {"none", "embedding", "completion"}

\* number of chunks used as context
TopK == 5

\* results.sort(key=lambda x: x["similarity"], reverse=True): a stable sort,
\* equal similarities keep their order
RECURSIVE InsertSorted(_, _)
InsertSorted(sorted, x) ==
    IF sorted = <<>> THEN <<x>>
    ELSE IF SimLess(Head(sorted).similarity, x.similarity)
         THEN <<x>> \o sorted
         ELSE <<Head(sorted)>> \o InsertSorted(Tail(sorted), x)

RECURSIVE SortBySimilarity(_, _)
SortBySimilarity(results, sorted) ==
    IF results = <<>> THEN sorted
    ELSE SortBySimilarity(Tail(results), InsertSorted(sorted, Head(results)))

\* the loop of documents.py:176-185
ScoreChunks(query_embedding, chunks) ==
    [i \in 1..Len(chunks) |->
        [chunk |-> chunks[i],
         similarity |-> calculate_similarity(query_embedding, chunks[i].embedding)]]

top_chunks_unsorted(query_embedding, chunks) ==
    LET results == ScoreChunks(query_embedding, chunks)
    IN  SubSeq(results, 1, Min(TopK, Len(results)))

\* results[:5] after the sort
top_chunks(query_embedding, chunks) ==
    LET results == SortBySimilarity(ScoreChunks(query_embedding, chunks), <<>>)
    IN  Prefix(results, Min(TopK, Len(results)))

\* longest chunk text a source shows in full
SourceChars == 100

\* chunk["text"][:100] + "..." if len(chunk["text"]) > 100 else chunk["text"]
chunk_text(text) ==
    IF JoinedLen(text) > SourceChars
    THEN [of |-> text, chars |-> SourceChars, ellipsis |-> TRUE]
    ELSE [of |-> text, chars |-> JoinedLen(text), ellipsis |-> FALSE]

\* the sources loop of documents.py:212-221
RECURSIVE BuildSources(_, _)
BuildSources(top, docs) ==
    IF top = <<>> THEN <<>>
    ELSE LET chunk == Head(top).chunk
             doc == FindDocument(docs, chunk.document_id)
         IN  (IF doc # {}
              THEN <<[filename |-> (CHOOSE d \in doc : TRUE).filename,
                      chunk_text |-> chunk_text(chunk.text)]>>
              ELSE <<>>) \o BuildSources(Tail(top), docs)

NoChunksResponse == "No document chunks found for the specified documents."

EmbeddingCall(prompt) == [api |-> "embeddings", input |-> prompt]
CompletionCall(context, prompt) == [api |-> "chat", context |-> context, prompt |-> prompt]

\* the body of the try block: its outcome and the outbound calls it made
query_documents(req, fault, docs, chunks) ==
    IF ~req.has_prompt \/ strip(req.prompt) = <<>>
    THEN [outcome |-> HTTPException(400, "Prompt is required"), calls |-> <<>>]
    ELSE IF req.ids_kind = "missing" \/ req.ids = {}
    THEN [outcome |-> HTTPException(400, "At least one document ID is required"),
          calls |-> <<>>]
    ELSE IF fault = "embedding"
    THEN [outcome |-> Raise("Exception", 0, "embedding failed"),
          calls |-> <<EmbeddingCall(req.prompt)>>]
    ELSE IF MalformedId \in req.ids
    THEN [outcome |-> Raise("InvalidId", 0, "not a valid ObjectId"),
          calls |-> <<EmbeddingCall(req.prompt)>>]
    ELSE LET found == FindChunks(chunks, req.ids)
         IN  IF found = <<>>
             THEN [outcome |-> Return([response |-> NoChunksResponse, sources |-> <<>>]),
                   calls |-> <<EmbeddingCall(req.prompt)>>]
             ELSE LET top == top_chunks(prompt_embedding(req.prompt), found)
                      context == [i \in 1..Len(top) |-> top[i].chunk.text]
                      calls == <<EmbeddingCall(req.prompt),
                                 CompletionCall(context, req.prompt)>>
                  IN  IF fault = "completion"
                      THEN [outcome |-> Raise("Exception", 0, "completion failed"),
                            calls |-> calls]
                      ELSE [outcome |-> Return([response |-> "completion",
                                                sources |-> BuildSources(top, docs)]),
                            calls |-> calls]

QueryDocuments ==
    \E req \in QueryRequests :
    \E fault \in QueryFaults(req, document_chunks) :
    LET run == query_documents(req, fault, documents, document_chunks)
    IN  /\ request' = req
        /\ response' = [op |-> "query"] @@ ExceptException(run.outcome)
        /\ outbound' = run.calls
        /\ UNCHANGED <<documents, document_chunks, next_doc_id, store_faulty>>
        /\ UNCHANGED <<simVars, sqlVars, splitVars, agentVars, taskVars, authVars>>

(***************************************************************************)
(* The account tables as the deployment starts with them: no role, no     *)
(* connection, and one account whose is_admin column an operator has set  *)
(* in the database (no handler or script assigns that column to an        *)
(* account on its own: admin/users.py create_user, itself behind the      *)
(* admin guard, is the only writer).                                       *)
(***************************************************************************)
\* users.role_id is nullable: NULL is written 0, serial ids start at 1
NoRole == 0

\* no Authorization header has been obtained yet
NoToken == [key |-> "none"]

CorrectPassword == "Secret1"

\* pwd_context.hash(password)
get_password_hash(password) == <<"bcrypt", password>>

SuperuserMobile == "9000000001"

Superuser ==
    [id |-> 1, mobile_number |-> SuperuserMobile,
     password_hash |-> get_password_hash(CorrectPassword),
     role_id |-> NoRole, is_admin |-> TRUE, roles |-> {}]

\* nothing has been split yet
NotSplit == [done |-> FALSE]

\* Python's None
None == "None"

\* BaseAgent.__init__ followed by SQLAgent.__init__: an empty conversation
\* history and the initial agent_state
NewSqlContext ==
    [conversation_history |-> <<>>,
     agent_state |-> [database_connected |-> FALSE, last_query |-> None,
                      available_tables |-> <<>>, current_schema |-> None]]

\* DocumentProcessor.__init__: the initial agent_state
\* a file path that is None
NoFile == [stem |-> "", suffix |-> ""]

NewDocAgentState ==
    [processed_files |-> <<>>, total_chunks |-> 0, last_processed_file |-> NoFile]

\* the agents of the MCP server, its client, and the store of test_main.py
\* before any call
InitAgents ==
    /\ sql_context = NewSqlContext
    /\ doc_agent_state = NewDocAgentState
    /\ session = None
    /\ transport = "none"
    /\ test_documents = <<>>
    /\ test_document_chunks = <<>>
    /\ doc_objects = <<>>
    /\ tasks = <<>>
    /\ files = {}

InitAccounts ==
    /\ users = {Superuser}
    /\ roles = {}
    /\ databases = {}
    /\ bearer = NoToken
    /\ now = 0
    /\ database_connections = {}
    /\ query_history = <<>>
    /\ engine = None
    /\ doc_text = <<>>
    /\ doc_chunk_size = DefaultChunkSize
    /\ doc_chunks = NotSplit
    /\ InitAgents

InitDocs ==
    /\ documents = {}
    /\ document_chunks = <<>>
    /\ next_doc_id = 1
    /\ request = NoRequest
    /\ response = NoResponse
    /\ outbound = <<>>
    /\ store_faulty = FALSE

NotComputed == [raised |-> "not computed"]

InitSim ==
    /\ InitAccounts
    /\ vec1 \in Vectors
    /\ vec2 \in Vectors
    /\ similarity = NotComputed
    /\ InitDocs

CalculateSimilarity ==
    /\ similarity = NotComputed
    /\ similarity' = calculate_similarity(vec1, vec2)
    /\ UNCHANGED <<vec1, vec2>>
    /\ UNCHANGED <<docVars, authVars, sqlVars, splitVars, agentVars, taskVars>>

NextSim == CalculateSimilarity

SpecSim == InitSim /\ [][NextSim]_vars

\* C1: whenever either vector has magnitude 0 (all-zero or empty), the
\* similarity helper returns 0, and it never raises a division by zero.
C1_ZeroMagnitudeGivesZero ==
    similarity # NotComputed =>
        /\ similarity # ZeroDivisionError
        /\ (SqMagnitude(vec1) = 0 \/ SqMagnitude(vec2) = 0) => similarity = LiteralZero

C1_Witness ==
    /\ similarity = LiteralZero
    /\ SqMagnitude(vec1) > 0
    /\ vec2 # <<>>
    /\ SqMagnitude(vec2) = 0

(***************************************************************************)
(* The document service: uploads, deletions and queries on a store that   *)
(* starts empty.                                                           *)
(***************************************************************************)
InitDocService ==
    /\ InitAccounts
    /\ vec1 = <<>>
    /\ vec2 = <<>>
    /\ similarity = NotComputed
    /\ InitDocs

NextDocs == UploadDocument \/ DeleteDocument \/ QueryDocuments

SpecDocs == InitDocService /\ [][NextDocs]_vars

(***************************************************************************)
(* Uploads and deletions on a store whose operations can fail (PyMongo    *)
(* errors during insert_one, delete_one and delete_many).                  *)
(***************************************************************************)
InitFaultyStore ==
    /\ InitAccounts
    /\ vec1 = <<>>
    /\ vec2 = <<>>
    /\ similarity = NotComputed
    /\ documents = {}
    /\ document_chunks = <<>>
    /\ next_doc_id = 1
    /\ request = NoRequest
    /\ response = NoResponse
    /\ outbound = <<>>
    /\ store_faulty = TRUE

NextFaultyStore == UploadDocument \/ DeleteDocument

SpecFaultyStore == InitFaultyStore /\ [][NextFaultyStore]_vars

(***************************************************************************)
(* Ranking scenarios: queries against a store that already holds one      *)
(* document of up to MaxChunks chunks, each chunk one word of its own      *)
(* length, with any of the embeddings below.                               *)
(***************************************************************************)
RankEmbeddings == {<<1, 1>>, <<0, 0>>}

RankedDocument(n) ==
    [_id |-> 1, user_id |-> 1, filename |-> [stem |-> "a", suffix |-> ".txt"],
     chunk_count |-> n]

InitRank ==
    /\ InitAccounts
    /\ vec1 = <<>>
    /\ vec2 = <<>>
    /\ similarity = NotComputed
    /\ \E n \in 0..MaxChunks :
        /\ documents = {RankedDocument(n)}
        /\ \E embeddings \in [1..n -> RankEmbeddings] :
            document_chunks =
                [i \in 1..n |-> [document_id |-> 1, text |-> <<600 - i>>,
                                 embedding |-> embeddings[i], chunk_id |-> i - 1]]
    /\ next_doc_id = 2
    /\ request = NoRequest
    /\ response = NoResponse
    /\ outbound = <<>>
    /\ store_faulty = FALSE

NextRank == QueryDocuments

SpecRank == InitRank /\ [][NextRank]_vars

(***************************************************************************)
(* Properties of POST /documents/query.                                    *)
(***************************************************************************)
Range(seq) == {seq[i] : i \in 1..Len(seq)}

QueryAnswered ==
    /\ response.op = "query"
    /\ response.status = 200
    /\ response.body.response = "completion"

\* the chunks the last query matched, and the texts it sent as context
Matched == FindChunks(document_chunks, request.ids)
Context == outbound[2].context

\* the similarity of the stored chunk with text t to the last prompt
Score(t) ==
    LET chunk == CHOOSE c \in Range(document_chunks) : c.text = t
    IN  calculate_similarity(prompt_embedding(request.prompt), chunk.embedding)

SelectionIsTopK ==
    /\ Len(Context) = Min(TopK, Len(Matched))
    /\ \A i \in 1..Len(Context) : \E j \in 1..Len(Matched) : Matched[j].text = Context[i]
    /\ \A i, j \in 1..Len(Context) : i # j => Context[i] # Context[j]
    /\ \A j \in 1..Len(Matched) :
        Matched[j].text \notin Range(Context) =>
            \A i \in 1..Len(Context) : ~SimLess(Score(Context[i]), Score(Matched[j].text))

\* C2 (as amended): a query that matches N chunks uses exactly min(5, N) of
\* them as context, in descending similarity order where equal similarities
\* may follow each other, and no unselected chunk scores higher than a
\* selected one.
C2_TopFiveDescending ==
    QueryAnswered =>
        /\ SelectionIsTopK
        /\ \A i \in 1..(Len(Context) - 1) :
            ~SimLess(Score(Context[i]), Score(Context[i + 1]))

\* C2 (original): the same with strictly descending similarities.
C2_Original_StrictlyDescending ==
    QueryAnswered =>
        /\ SelectionIsTopK
        /\ \A i \in 1..(Len(Context) - 1) :
            SimLess(Score(Context[i + 1]), Score(Context[i]))

C2_Witness ==
    /\ QueryAnswered
    /\ Len(Matched) > TopK
    /\ Len(Context) = TopK
    /\ SimLess(Score(Context[3]), Score(Context[2]))
    /\ SimEqual(Score(Context[1]), Score(Context[2]))
    /\ SimEqual(Score(Context[TopK]), Score(Context[TopK - 1]))
    /\ Context[1] # Matched[1].text
    /\ \E j \in 1..Len(Matched) :
        /\ Matched[j].text \notin Range(Context)
        /\ SimLess(Score(Matched[j].text), Score(Context[1]))

ValidQuery ==
    /\ request.op = "query"
    /\ request.has_prompt
    /\ strip(request.prompt) # <<>>
    /\ request.ids_kind # "missing"
    /\ request.ids # {}

ChatCalls == {i \in 1..Len(outbound) : outbound[i].api = "chat"}
EmbeddingServiceCalls == {i \in 1..Len(outbound) : outbound[i].api = "embeddings"}

CannedNoChunks ==
    /\ response.status = 200
    /\ response.body = [response |-> NoChunksResponse, sources |-> <<>>]

\* C3: a query whose document ids match no stored chunk, the embedding
\* service answering, gets the canned 'No document chunks found' response
\* with empty sources and a success status, and makes no completion call.
C3_UnknownIdGivesCannedResponse ==
    (/\ ValidQuery
     /\ Matched = <<>>
     /\ ~(response.status = 500 /\ response.body.detail = "embedding failed"))
    => (CannedNoChunks /\ ChatCalls = {})

\* C4: a query with a missing, empty or blank prompt, or with no document
\* ids, is answered with a 4xx status and makes no outbound call.
C4_InvalidQueryIsClientError ==
    (request.op = "query" /\ ~ValidQuery)
    => (response.status \in 400..499 /\ outbound = <<>>)

StoredDocument(id) == CHOOSE d \in documents : d._id = id

SECRET_KEY == "your-secret-key-for-development-only"
OtherSecret == "a-different-secret"
ACCESS_TOKEN_EXPIRE_MINUTES == 1440
ADMIN_ROLE_NAME == "admin"
ADMIN_PERMISSION_NAME == "admin_access"
USER_ROLE_NAME == "user"

\* the mobile number setup_admin_role_permissions.py looks for
ScriptAdminMobile == "1234567890"
Mobiles == {ScriptAdminMobile, SuperuserMobile, "5550100"}
Passwords == {CorrectPassword, "guess"}
RoleNames == {ADMIN_ROLE_NAME, USER_ROLE_NAME, "viewer"}

\* the permissions setup_admin_role_permissions.py gives the admin role
admin_permissions ==
    {"admin_access", "manage_users", "manage_roles", "manage_permissions",
     "manage_databases", "manage_documents", "view_analytics"}

\* the clock advances in steps of a little over half a token lifetime
TickMinutes == ACCESS_TOKEN_EXPIRE_MINUTES \div 2 + 1

\* the accounts the admin console is pointed at: every account but the
\* operator's own, and an id no account has
TargetUserIds == 2..(MaxUsers + 1)

One(rows) == CHOOSE row \in rows : TRUE

\* the id a serial primary key gives the next row (no row is ever deleted)
NextId(table) == Cardinality(table) + 1

\* db.query(User).filter(User.mobile_number == mobile_number).first()
get_user_by_mobile(mobile_number) == {u \in users : u.mobile_number = mobile_number}

\* db.query(User).filter(User.id == user_id).first()
get_user_by_id(user_id) == {u \in users : u.id = user_id}

\* db.query(Role).filter(Role.name == name).first()
RoleByName(name) == {r \in roles : r.name = name}

\* db.query(Role).filter(Role.id == role_id).first()
RoleById(role_id) == {r \in roles : r.id = role_id}

\* pwd_context.verify(plain_password, hashed_password)
verify_password(plain_password, hashed_password) ==
    hashed_password = get_password_hash(plain_password)

\* authenticate_user without the password check
authenticate_user_any_password(mobile_number, password) ==
    get_user_by_mobile(mobile_number)

authenticate_user(mobile_number, password) ==
    {u \in get_user_by_mobile(mobile_number) : verify_password(password, u.password_hash)}

\* str(user.id) and int(user_id_str)
str(n) == ToString(n)
int(s) == CHOOSE n \in 0..(MaxUsers + 1) : ToString(n) = s

\* jwt.encode of the claims with the expiry added
create_access_token(data, expires_delta) ==
    [sub |-> data.sub, exp |-> now + expires_delta, key |-> SECRET_KEY]

\* jwt.decode without the expiry check
jwt_decode_no_expiry(token, key) ==
    IF token.key # key
    THEN Raise("JWTError", 0, "Signature verification failed.")
    ELSE Return([sub |-> token.sub, exp |-> token.exp])

\* jwt.decode(token, SECRET_KEY, algorithms=[ALGORITHM]): the signature is
\* checked against the key, then the exp claim against the clock
jwt_decode(token, key) ==
    IF token.key # key
    THEN Raise("JWTError", 0, "Signature verification failed.")
    ELSE IF token.exp < now
    THEN Raise("ExpiredSignatureError", 0, "Signature has expired.")
    ELSE Return([sub |-> token.sub, exp |-> token.exp])

credentials_exception == HTTPException(401, "Could not validate credentials")

get_current_user(token) ==
    LET payload == jwt_decode(token, SECRET_KEY)
    IN  IF payload.kind = "raise"
        THEN credentials_exception
        ELSE LET user == get_user_by_id(int(payload.body.sub))
             IN  IF user = {} THEN credentials_exception ELSE Return(One(user))

verify_jwt(jwtoken) == jwt_decode(jwtoken, SECRET_KEY).kind = "return"

decode_jwt(jwtoken) ==
    LET payload == jwt_decode(jwtoken, SECRET_KEY)
    IN  IF payload.kind = "raise"
        THEN HTTPException(403, "Invalid token or expired token.")
        ELSE Return([sub |-> payload.body.sub, exp |-> payload.body.exp,
                     user_id |-> int(payload.body.sub)])

JWTBearer(token) ==
    IF ~verify_jwt(token)
    THEN HTTPException(403, "Invalid token or expired token.")
    ELSE decode_jwt(token)

\* dependencies.get_user_permissions: the permissions of the role in
\* users.role_id
get_user_permissions(user) ==
    IF user.role_id = NoRole
    THEN {}
    ELSE UNION {r.permissions : r \in RoleById(user.role_id)}

has_permission(required_permission, token) ==
    LET current_user == get_current_user(token)
    IN  IF current_user.kind = "raise"
        THEN current_user
        ELSE IF required_permission \notin get_user_permissions(current_user.body)
        THEN HTTPException(403, "Permission denied")
        ELSE current_user

get_current_admin(token) ==
    LET current_user == get_current_user(token)
    IN  IF current_user.kind = "raise"
        THEN current_user
        ELSE IF ~current_user.body.is_admin
        THEN HTTPException(403, "Not authorized to access admin resources")
        ELSE current_user

\* a route declared with status_code=201
Created(outcome) ==
    IF outcome.kind = "return"
    THEN [status |-> 201, body |-> outcome.body]
    ELSE Unwrapped(outcome)

\* login's except Exception: every failure, its own 401 included, is
\* raised again as 401 "Login error: ..."
ExceptLoginError(outcome) ==
    IF outcome.kind = "return"
    THEN [status |-> 200, body |-> outcome.body]
    ELSE [status |-> 401, body |-> [detail |-> <<"Login error", outcome.detail>>]]

UserResponse(user) ==
    [id |-> user.id, mobile_number |-> user.mobile_number, role_id |-> user.role_id]

docStore == <<documents, document_chunks, next_doc_id, store_faulty>>

\* POST /auth/signup
Signup ==
    \E mobile \in Mobiles :
    LET db_user == get_user_by_mobile(mobile)
        default_role == RoleByName(USER_ROLE_NAME)
        admin_role == RoleByName(ADMIN_ROLE_NAME)
        creates_role == default_role = {} /\ admin_role = {}
        new_role == [id |-> NextId(roles), name |-> USER_ROLE_NAME, permissions |-> {}]
        role_id == IF default_role # {} THEN One(default_role).id
                   ELSE IF admin_role # {} THEN One(admin_role).id
                   ELSE new_role.id
        new_user == [id |-> NextId(users), mobile_number |-> mobile,
                     password_hash |-> get_password_hash(CorrectPassword),
                     role_id |-> role_id, is_admin |-> FALSE, roles |-> {}]
    IN  /\ db_user = {} => Cardinality(users) < MaxUsers
        /\ (db_user = {} /\ creates_role) => Cardinality(roles) < MaxRoles
        /\ request' = [op |-> "signup", mobile_number |-> mobile]
        /\ outbound' = <<>>
        /\ IF db_user # {}
           THEN /\ response' = [op |-> "signup"] @@
                        Unwrapped(HTTPException(400, "Mobile number already registered"))
                /\ UNCHANGED <<users, roles>>
           ELSE /\ roles' = IF creates_role THEN roles \cup {new_role} ELSE roles
                /\ users' = users \cup {new_user}
                /\ response' = [op |-> "signup"] @@ Unwrapped(Return(UserResponse(new_user)))
        /\ UNCHANGED <<databases, bearer, now>>
        /\ UNCHANGED <<simVars, sqlVars, splitVars, agentVars, taskVars, docStore>>

\* POST /auth/login; the client keeps the token it is given
Login ==
    \E username \in Mobiles, password \in Passwords :
    LET user == authenticate_user(username, password)
        access_token == create_access_token([sub |-> str(One(user).id)],
                                            ACCESS_TOKEN_EXPIRE_MINUTES)
    IN  /\ request' = [op |-> "login", username |-> username, password |-> password]
        /\ outbound' = <<>>
        /\ IF user = {}
           THEN /\ response' = [op |-> "login"] @@ ExceptLoginError(
                        HTTPException(401, "Incorrect mobile number or password"))
                /\ UNCHANGED bearer
           ELSE /\ response' = [op |-> "login"] @@ ExceptLoginError(Return(
                        [access_token |-> access_token, token_type |-> "bearer"]))
                /\ bearer' = access_token
        /\ UNCHANGED <<users, roles, databases, now>>
        /\ UNCHANGED <<simVars, sqlVars, splitVars, agentVars, taskVars, docStore>>

\* a logout that also takes the client's token out of use
LogoutRevoking ==
    /\ request' = [op |-> "logout"]
    /\ outbound' = <<>>
    /\ response' = [op |-> "logout"] @@
            Unwrapped(Return([detail |-> "Successfully logged out"]))
    /\ bearer' = NoToken
    /\ UNCHANGED <<users, roles, databases, now>>
    /\ UNCHANGED <<simVars, sqlVars, splitVars, agentVars, taskVars, docStore>>

\* POST /auth/logout: no dependency, no database session, a fixed answer
Logout ==
    /\ request' = [op |-> "logout"]
    /\ outbound' = <<>>
    /\ response' = [op |-> "logout"] @@
            Unwrapped(Return([detail |-> "Successfully logged out"]))
    /\ UNCHANGED authVars
    /\ UNCHANGED <<simVars, sqlVars, splitVars, agentVars, taskVars, docStore>>

\* a client makes up a token for an account and signs it with its own secret
Forge ==
    \E u \in users :
        /\ bearer' = [sub |-> str(u.id), exp |-> now + ACCESS_TOKEN_EXPIRE_MINUTES,
                      key |-> OtherSecret]
        /\ UNCHANGED <<users, roles, databases, now>>
        /\ UNCHANGED <<simVars, sqlVars, splitVars, agentVars, taskVars, docStore, request, response, outbound>>

\* time passes
Tick ==
    /\ now < MaxTicks * TickMinutes
    /\ now' = now + TickMinutes
    /\ UNCHANGED <<users, roles, databases, bearer>>
    /\ UNCHANGED <<simVars, sqlVars, splitVars, agentVars, taskVars, docStore, request, response, outbound>>

\* GET /auth/me, behind get_current_user
GetMe ==
    LET current_user == get_current_user(bearer)
        user == current_user.body
        role == IF user.role_id # NoRole THEN RoleById(user.role_id) ELSE {}
        permissions == IF role = {} THEN {} ELSE One(role).permissions
        is_admin == \/ role # {} /\ One(role).name = ADMIN_ROLE_NAME
                    \/ ADMIN_PERMISSION_NAME \in permissions
    IN  /\ bearer # NoToken
        /\ request' = [op |-> "me", token |-> bearer, at |-> now]
        /\ outbound' = <<>>
        /\ response' = [op |-> "me"] @@
                (IF current_user.kind = "raise"
                 THEN Unwrapped(current_user)
                 ELSE ExceptException(Return(
                        [id |-> user.id, mobile_number |-> user.mobile_number,
                         role_id |-> user.role_id, permissions |-> permissions,
                         is_admin |-> is_admin])))
        /\ UNCHANGED authVars
        /\ UNCHANGED <<simVars, sqlVars, splitVars, agentVars, taskVars, docStore>>

\* list_documents (apis/documents.py), behind JWTBearer
ListDocuments ==
    LET current_user == JWTBearer(bearer)
        found == {d \in documents : d.user_id = current_user.body.user_id}
    IN  /\ bearer # NoToken
        /\ request' = [op |-> "list_documents", token |-> bearer, at |-> now]
        /\ outbound' = <<>>
        /\ response' = [op |-> "list_documents"] @@
                (IF current_user.kind = "raise"
                 THEN Unwrapped(current_user)
                 ELSE ExceptException(Return(
                        {[id |-> d._id, filename |-> d.filename,
                          chunk_count |-> d.chunk_count] : d \in found})))
        /\ UNCHANGED authVars
        /\ UNCHANGED <<simVars, sqlVars, splitVars, agentVars, taskVars, docStore>>

\* list_users (apis/admin/users.py), behind get_current_admin
AdminListUsers ==
    LET current_admin == get_current_admin(bearer)
    IN  /\ bearer # NoToken
        /\ request' = [op |-> "admin_list_users", token |-> bearer, at |-> now]
        /\ outbound' = <<>>
        /\ response' = [op |-> "admin_list_users"] @@
                (IF current_admin.kind = "raise"
                 THEN Unwrapped(current_admin)
                 ELSE Unwrapped(Return(
                        {[id |-> u.id, mobile_number |-> u.mobile_number,
                          is_admin |-> u.is_admin] : u \in users})))
        /\ UNCHANGED authVars
        /\ UNCHANGED <<simVars, sqlVars, splitVars, agentVars, taskVars, docStore>>

\* create_user (apis/admin/users.py), behind get_current_admin
AdminCreateUser ==
    \E mobile \in Mobiles, is_admin \in BOOLEAN :
    LET current_admin == get_current_admin(bearer)
        existing_user == get_user_by_mobile(mobile)
        default_role == RoleByName("user")
        new_user == [id |-> NextId(users), mobile_number |-> mobile,
                     password_hash |-> get_password_hash(CorrectPassword),
                     role_id |-> IF default_role # {} THEN One(default_role).id ELSE NoRole,
                     is_admin |-> is_admin, roles |-> {}]
        creates == current_admin.kind = "return" /\ existing_user = {}
    IN  /\ bearer # NoToken
        /\ creates => Cardinality(users) < MaxUsers
        /\ request' = [op |-> "admin_create_user", token |-> bearer, at |-> now,
                       mobile_number |-> mobile, is_admin |-> is_admin]
        /\ outbound' = <<>>
        /\ IF current_admin.kind = "raise"
           THEN /\ response' = [op |-> "admin_create_user"] @@ Unwrapped(current_admin)
                /\ UNCHANGED users
           ELSE IF existing_user # {}
           THEN /\ response' = [op |-> "admin_create_user"] @@
                        Unwrapped(HTTPException(400, "Mobile number already registered"))
                /\ UNCHANGED users
           ELSE /\ users' = users \cup {new_user}
                /\ response' = [op |-> "admin_create_user"] @@
                        Created(Return(UserResponse(new_user)))
        /\ UNCHANGED <<roles, databases, bearer, now>>
        /\ UNCHANGED <<simVars, sqlVars, splitVars, agentVars, taskVars, docStore>>

\* update_user (apis/admin/users.py) with a body that sets role_id
AdminUpdateUser ==
    \E user_id \in TargetUserIds, role_id \in {r.id : r \in roles} :
    LET current_admin == get_current_admin(bearer)
        user == get_user_by_id(user_id)
        updated == [One(user) EXCEPT !.role_id = role_id]
    IN  /\ bearer # NoToken
        /\ request' = [op |-> "admin_update_user", token |-> bearer, at |-> now,
                       user_id |-> user_id, role_id |-> role_id]
        /\ outbound' = <<>>
        /\ IF current_admin.kind = "raise"
           THEN /\ response' = [op |-> "admin_update_user"] @@ Unwrapped(current_admin)
                /\ UNCHANGED users
           ELSE IF user = {}
           THEN /\ response' = [op |-> "admin_update_user"] @@
                        Unwrapped(HTTPException(404, "User not found"))
                /\ UNCHANGED users
           ELSE /\ users' = (users \ user) \cup {updated}
                /\ response' = [op |-> "admin_update_user"] @@
                        Unwrapped(Return(UserResponse(updated)))
        /\ UNCHANGED <<roles, databases, bearer, now>>
        /\ UNCHANGED <<simVars, sqlVars, splitVars, agentVars, taskVars, docStore>>

\* assign_roles_to_user (apis/admin/users.py); the role ids are listed in ascending
\* order.  A role id that is not found ends the request before db.commit(),
\* and the session is closed without the pending changes.
\* a handler that appends to user.roles without clearing it first
assign_roles_keeping(user, role_ids) == [user EXCEPT !.roles = @ \cup role_ids]

\* user.roles = [] followed by user.roles.append(role) for every role id
assign_roles(user, role_ids) == [user EXCEPT !.roles = role_ids]

AdminAssignRoles ==
    \E user_id \in TargetUserIds, role_ids \in SUBSET (1..MaxRoles) :
    LET current_admin == get_current_admin(bearer)
        user == get_user_by_id(user_id)
        missing == {id \in role_ids : RoleById(id) = {}}
        updated == assign_roles(One(user), role_ids)
    IN  /\ bearer # NoToken
        /\ request' = [op |-> "admin_assign_roles", token |-> bearer, at |-> now,
                       user_id |-> user_id, role_ids |-> role_ids]
        /\ outbound' = <<>>
        /\ IF current_admin.kind = "raise"
           THEN /\ response' = [op |-> "admin_assign_roles"] @@ Unwrapped(current_admin)
                /\ UNCHANGED users
           ELSE IF user = {}
           THEN /\ response' = [op |-> "admin_assign_roles"] @@
                        Unwrapped(HTTPException(404, "User not found"))
                /\ UNCHANGED users
           ELSE IF missing # {}
           THEN /\ response' = [op |-> "admin_assign_roles"] @@
                        Unwrapped(HTTPException(404, "Role not found"))
                /\ UNCHANGED users
           ELSE /\ users' = (users \ user) \cup {updated}
                /\ response' = [op |-> "admin_assign_roles"] @@
                        Unwrapped(Return([message |-> "Roles assigned successfully"]))
        /\ UNCHANGED <<roles, databases, bearer, now>>
        /\ UNCHANGED <<simVars, sqlVars, splitVars, agentVars, taskVars, docStore>>

\* create_role (apis/admin/roles.py), behind get_current_admin
AdminCreateRole ==
    \E name \in RoleNames :
    LET current_admin == get_current_admin(bearer)
        existing_role == RoleByName(name)
        new_role == [id |-> NextId(roles), name |-> name, permissions |-> {}]
        creates == current_admin.kind = "return" /\ existing_role = {}
    IN  /\ bearer # NoToken
        /\ creates => Cardinality(roles) < MaxRoles
        /\ request' = [op |-> "admin_create_role", token |-> bearer, at |-> now,
                       name |-> name]
        /\ outbound' = <<>>
        /\ IF current_admin.kind = "raise"
           THEN /\ response' = [op |-> "admin_create_role"] @@ Unwrapped(current_admin)
                /\ UNCHANGED roles
           ELSE IF existing_role # {}
           THEN /\ response' = [op |-> "admin_create_role"] @@
                        Unwrapped(HTTPException(400, "Role with this name already exists"))
                /\ UNCHANGED roles
           ELSE /\ roles' = roles \cup {new_role}
                /\ response' = [op |-> "admin_create_role"] @@
                        Created(Return([id |-> new_role.id, name |-> name]))
        /\ UNCHANGED <<users, databases, bearer, now>>
        /\ UNCHANGED <<simVars, sqlVars, splitVars, agentVars, taskVars, docStore>>

AdminRoute ==
    \/ AdminListUsers
    \/ AdminCreateUser
    \/ AdminUpdateUser
    \/ AdminAssignRoles
    \/ AdminCreateRole

\* create_connection (apis/database.py), behind has_permission("manage_databases")
CreateConnection ==
    LET current_user == has_permission("manage_databases", bearer)
        role == RoleById(current_user.body.role_id)
        db_connection == [id |-> NextId(databases), user_id |-> current_user.body.id,
                          name |-> "db"]
        creates == /\ current_user.kind = "return"
                   /\ One(role).name \in {"admin", "developer"}
    IN  /\ bearer # NoToken
        /\ creates => Cardinality(databases) < MaxConnections
        /\ request' = [op |-> "create_connection", token |-> bearer, at |-> now]
        /\ outbound' = <<>>
        /\ IF current_user.kind = "raise"
           THEN /\ response' = [op |-> "create_connection"] @@ Unwrapped(current_user)
                /\ UNCHANGED databases
           ELSE IF ~creates
           THEN /\ response' = [op |-> "create_connection"] @@ Unwrapped(HTTPException(403,
                        "Only admin and developer roles can create database connections"))
                /\ UNCHANGED databases
           ELSE /\ databases' = databases \cup {db_connection}
                /\ response' = [op |-> "create_connection"] @@
                        Unwrapped(Return(db_connection))
        /\ UNCHANGED <<users, roles, bearer, now>>
        /\ UNCHANGED <<simVars, sqlVars, splitVars, agentVars, taskVars, docStore>>

\* an exception no handler catches: Starlette answers 500
Unhandled(outcome) ==
    IF outcome.kind = "return" THEN [status |-> 200, body |-> outcome.body]
    ELSE IF outcome.type = "HTTPException"
    THEN [status |-> outcome.status_code, body |-> [detail |-> outcome.detail]]
    ELSE [status |-> 500, body |-> [detail |-> "Internal Server Error"]]

\* db.query(Database).filter(Database.id == connection_id).first()
FindConnection(connection_id) == {c \in databases : c.id = connection_id}

\* if db_connection.user_id != current_user.id and
\*    current_user.role.name != "admin": raise HTTPException(403, ...)
\* current_user.role is None for an account whose role_id is NULL
may_change_connection(db_connection, current_user) ==
    IF db_connection.user_id = current_user.id THEN Return(TRUE)
    ELSE IF RoleById(current_user.role_id) = {}
    THEN Raise("AttributeError", 0, "'NoneType' object has no attribute 'name'")
    ELSE IF One(RoleById(current_user.role_id)).name # "admin"
    THEN HTTPException(403, "You don't have permission to change this connection")
    ELSE Return(TRUE)

ConnectionIds == 1..(MaxConnections + 1)
ConnectionNames == {"db", "renamed"}

\* what update_connection and delete_connection do before they write
connection_check(connection_id) ==
    LET current_user == get_current_user(bearer)
        db_connection == FindConnection(connection_id)
    IN  IF current_user.kind = "raise" THEN current_user
        ELSE IF db_connection = {}
        THEN HTTPException(404, "Database connection not found")
        ELSE may_change_connection(One(db_connection), current_user.body)

\* PUT /database/connections/{connection_id} with a body that sets name
UpdateConnection ==
    \E connection_id \in ConnectionIds, name \in ConnectionNames :
    LET checked == connection_check(connection_id)
        updated == [One(FindConnection(connection_id)) EXCEPT !.name = name]
    IN  /\ bearer # NoToken
        /\ request' = [op |-> "update_connection", token |-> bearer, at |-> now,
                       connection_id |-> connection_id, name |-> name]
        /\ outbound' = <<>>
        /\ IF checked.kind = "raise"
           THEN /\ response' = [op |-> "update_connection"] @@ Unhandled(checked)
                /\ UNCHANGED databases
           ELSE /\ databases' = (databases \ FindConnection(connection_id))
                                    \cup {updated}
                /\ response' = [op |-> "update_connection"] @@
                        Unhandled(Return(updated))
        /\ UNCHANGED <<users, roles, bearer, now>>
        /\ UNCHANGED <<simVars, sqlVars, splitVars, agentVars, taskVars, docStore>>

\* DELETE /database/connections/{connection_id}
DeleteConnection ==
    \E connection_id \in ConnectionIds :
    LET checked == connection_check(connection_id)
    IN  /\ bearer # NoToken
        /\ request' = [op |-> "delete_connection", token |-> bearer, at |-> now,
                       connection_id |-> connection_id]
        /\ outbound' = <<>>
        /\ IF checked.kind = "raise"
           THEN /\ response' = [op |-> "delete_connection"] @@ Unhandled(checked)
                /\ UNCHANGED databases
           ELSE /\ databases' = databases \ FindConnection(connection_id)
                /\ response' = [op |-> "delete_connection"] @@ Unhandled(Return(
                        [detail |-> "Database connection deleted successfully"]))
        /\ UNCHANGED <<users, roles, bearer, now>>
        /\ UNCHANGED <<simVars, sqlVars, splitVars, agentVars, taskVars, docStore>>

\* create_admin_user.py: python create_admin_user.py --mobile ...
CreateAdminUser ==
    \E mobile \in Mobiles :
    LET found_role == RoleByName(ADMIN_ROLE_NAME)
        admin_role == IF found_role # {} THEN One(found_role)
                      ELSE [id |-> NextId(roles), name |-> ADMIN_ROLE_NAME,
                            permissions |-> {}]
        existing_user == get_user_by_mobile(mobile)
        new_user == [id |-> NextId(users), mobile_number |-> mobile,
                     password_hash |-> get_password_hash(CorrectPassword),
                     role_id |-> admin_role.id, is_admin |-> FALSE, roles |-> {}]
    IN  /\ found_role = {} => Cardinality(roles) < MaxRoles
        /\ existing_user = {} => Cardinality(users) < MaxUsers
        /\ roles' = roles \cup {admin_role}
        /\ users' = IF existing_user # {}
                    THEN (users \ existing_user) \cup
                         {[One(existing_user) EXCEPT
                              !.password_hash = get_password_hash(CorrectPassword),
                              !.role_id = admin_role.id]}
                    ELSE users \cup {new_user}
        /\ UNCHANGED <<databases, bearer, now>>
        /\ UNCHANGED <<simVars, sqlVars, splitVars, agentVars, taskVars, docStore, request, response, outbound>>

\* setup_admin_role_permissions.py
SetupAdminRolePermissions ==
    LET found_role == RoleByName("admin")
        admin_role == IF found_role # {} THEN One(found_role)
                      ELSE [id |-> NextId(roles), name |-> "admin", permissions |-> {}]
        admin_user == get_user_by_mobile(ScriptAdminMobile)
    IN  /\ found_role = {} => Cardinality(roles) < MaxRoles
        /\ roles' = (roles \ found_role) \cup
                    {[admin_role EXCEPT !.permissions = @ \cup admin_permissions]}
        /\ users' = IF admin_user # {}
                    THEN (users \ admin_user) \cup
                         {[One(admin_user) EXCEPT !.role_id = admin_role.id]}
                    ELSE users
        /\ UNCHANGED <<databases, bearer, now>>
        /\ UNCHANGED <<simVars, sqlVars, splitVars, agentVars, taskVars, docStore, request, response, outbound>>

InitAuth ==
    /\ vec1 = <<>>
    /\ vec2 = <<>>
    /\ similarity = NotComputed
    /\ InitDocs
    /\ InitAccounts

(***************************************************************************)
(* Role based access control: accounts, roles and the guarded routes.     *)
(***************************************************************************)
NextAuth ==
    \/ Signup
    \/ Login
    \/ GetMe
    \/ CreateConnection
    \/ AdminRoute
    \/ CreateAdminUser
    \/ SetupAdminRolePermissions

SpecAuth == InitAuth /\ [][NextAuth]_vars

\* the stored database connections and the accounts that work on them
NextConnections ==
    \/ Login
    \/ CreateAdminUser
    \/ SetupAdminRolePermissions
    \/ CreateConnection
    \/ UpdateConnection
    \/ DeleteConnection

SpecConnections == InitAuth /\ [][NextConnections]_vars

(***************************************************************************)
(* The route table of the application (main.py, apis/admin/__init__.py).   *)
(* A path is the sequence of its segments.                                 *)
(***************************************************************************)
Route(method, path, endpoint) == [method |-> method, path |-> path, endpoint |-> endpoint]

\* a router's routes under a prefix: APIRouter(prefix=...) and
\* include_router(router, prefix=...) both put the prefix in front
include_router(routes, prefix) ==
    {Route(r.method, prefix \o r.path, r.endpoint) : r \in routes}

\* apis/admin/users.py: router = APIRouter()
users_router ==
    {Route("GET", <<"users">>, "list_users"),
     Route("POST", <<"users">>, "create_user")}

\* apis/admin/roles.py: router = APIRouter()
roles_router ==
    {Route("GET", <<"roles">>, "list_roles"),
     Route("POST", <<"roles">>, "create_role")}

\* apis/admin/__init__.py: router = APIRouter(prefix="/admin") with the
\* sub-routers included
admin_router == include_router(users_router \cup roles_router, <<"admin">>)

\* apis/auth.py: router = APIRouter(prefix="/auth")
auth_router ==
    include_router({Route("GET", <<"me">>, "read_users_me"),
                    Route("POST", <<"login">>, "login")}, <<"auth">>)

\* main.py: app.include_router(auth_router), ...,
\* app.include_router(admin_router, prefix="/admin")
app_routes == auth_router \cup include_router(admin_router, <<"admin">>)

NotFound == "Not Found"

\* the endpoint the application runs for a request line
resolve(method, path) ==
    IF \E r \in app_routes : r.method = method /\ r.path = path
    THEN (CHOOSE r \in app_routes : r.method = method /\ r.path = path).endpoint
    ELSE NotFound

\* ADMIN_USERS_URL of test_admin_api.py, without the host
ADMIN_USERS_URL == <<"admin", "users">>

\* the URLs clients ask for
GetPaths == {ADMIN_USERS_URL, <<"admin", "admin", "users">>, <<"auth", "me">>,
             <<"admin", "roles">>}

\* a GET request with a bearer token: the matching endpoint runs, or the
\* application answers 404
HttpGet(path) ==
    LET endpoint == resolve("GET", path)
    IN  IF endpoint = "list_users" THEN AdminListUsers
        ELSE IF endpoint = "read_users_me" THEN GetMe
        ELSE /\ endpoint = NotFound
             /\ bearer # NoToken
             /\ request' = [op |-> "http", method |-> "GET", path |-> path,
                            token |-> bearer, at |-> now]
             /\ response' = [op |-> "http", status |-> 404,
                             body |-> [detail |-> NotFound]]
             /\ outbound' = <<>>
             /\ UNCHANGED authVars
             /\ UNCHANGED <<simVars, sqlVars, splitVars, agentVars, taskVars, docStore>>

Get == \E path \in GetPaths : HttpGet(path)

(***************************************************************************)
(* Bearer tokens over time: logins, made-up tokens, expiry.                *)
(***************************************************************************)
NextSession ==
    \/ Signup
    \/ Login
    \/ Logout
    \/ Forge
    \/ Tick
    \/ GetMe
    \/ ListDocuments
    \/ AdminListUsers
    \/ CreateConnection
    \/ Get

SpecSession == InitAuth /\ [][NextSession]_vars

(***************************************************************************)
(* Properties of authentication and access control.                        *)
(***************************************************************************)
\* the request about to be handled comes from a signed-in account
Authenticated == bearer # NoToken /\ get_current_user(bearer).kind = "return"
CurrentUser == get_current_user(bearer).body

\* the account's role is 'viewer', a role without permissions
IsViewer(user) ==
    \E r \in RoleById(user.role_id) : r.name = "viewer" /\ r.permissions = {}

\* the account's role is 'admin', and that role holds admin_access
HoldsAdminRole(user) ==
    \E r \in RoleById(user.role_id) :
        r.name = ADMIN_ROLE_NAME /\ ADMIN_PERMISSION_NAME \in r.permissions

\* every role assigned to the account: the one in users.role_id and the
\* ones linked through user_role
AssignedRoles(user) == RoleById(user.role_id) \cup {r \in roles : r.id \in user.roles}
EffectivePermissions(user) == UNION {r.permissions : r \in AssignedRoles(user)}

\* C6: an admin-only route called by an authenticated account whose role is
\* 'viewer' (no permissions) answers 403 and leaves the stored tables as
\* they were.
C6_ViewerDeniedAdminRoutes ==
    [][(AdminRoute /\ Authenticated /\ IsViewer(CurrentUser))
            => (response'.status = 403 /\ UNCHANGED <<users, roles, databases>>)]_vars

\* C7: an admin-only route called by an authenticated account whose role is
\* 'admin', that role holding admin_access, gets past get_current_admin:
\* the answer is not an authentication or authorization refusal.
C7_AdminRoleAllowed ==
    [][(AdminRoute /\ Authenticated /\ HoldsAdminRole(CurrentUser))
            => response'.status \notin {401, 403}]_vars

GuardedOps == {"me", "list_documents", "admin_list_users", "create_connection"}

\* the token the request carried was signed with another secret, or had
\* expired when the request was handled
BadToken(req) == req.token.key # SECRET_KEY \/ req.token.exp < req.at

RejectedBadToken ==
    request.op \in GuardedOps /\ response.op = request.op /\ BadToken(request)

\* C8 (as the code has it): a bearer token signed with a different secret,
\* or whose expiry has passed, never resolves to a user: routes behind
\* get_current_user answer 401 "Could not validate credentials", routes
\* behind JWTBearer answer 403 "Invalid token or expired token.".
C8_BadTokenRejected ==
    RejectedBadToken =>
        IF request.op = "list_documents"
        THEN /\ response.status = 403
             /\ response.body = [detail |-> "Invalid token or expired token."]
        ELSE /\ response.status = 401
             /\ response.body = [detail |-> "Could not validate credentials"]

\* C8 as stated: such a token is rejected with 401 on every authenticated
\* route.
C8_Original_Always401 == RejectedBadToken => response.status = 401

\* an expired token that the server itself issued is turned away by a
\* route behind JWTBearer
C8_Witness ==
    /\ RejectedBadToken
    /\ request.op = "list_documents"
    /\ request.token.key = SECRET_KEY
    /\ request.token.exp < request.at
    /\ get_user_by_id(int(request.token.sub)) # {}
    /\ response.status = 403

\* C9: has_permission refuses a request exactly when the required
\* permission is in none of the roles assigned to the caller, the roles
\* assigned through assign_roles_to_user included.
C9_UnionOfAssignedRoles ==
    [][(CreateConnection /\ Authenticated)
            => ((response'.status = 403 /\ response'.body = [detail |-> "Permission denied"])
                    <=> "manage_databases" \notin EffectivePermissions(CurrentUser))]_vars

\* C10: the account a successful POST /auth/signup creates has the role
\* named 'user', whatever the roles table held.
C10_SignupGivesUserRole ==
    (response.op = "signup" /\ response.status = 200)
        => \E r \in RoleById(response.body.role_id) : r.name = USER_ROLE_NAME

\* the accounts a login with these credentials is entitled to
Matching(username, password) ==
    {u \in users : /\ u.mobile_number = username
                   /\ u.password_hash = get_password_hash(password)}

\* C11: login issues a token only when an account with the given mobile
\* number exists and the password verifies against its stored hash, and the
\* token's subject is that account's id; every other attempt is answered
\* 401 without a token.
C11_LoginIssuesTokenOnlyForVerifiedUser ==
    [][Login =>
        IF Matching(request'.username, request'.password) # {}
        THEN /\ response'.status = 200
             /\ response'.body.access_token.key = SECRET_KEY
             /\ \E u \in Matching(request'.username, request'.password) :
                    response'.body.access_token.sub = str(u.id)
             /\ bearer' = response'.body.access_token
        ELSE /\ response'.status = 401
             /\ "access_token" \notin DOMAIN response'.body
             /\ bearer' = bearer]_vars

\* an account that signed up logs in and is given a token for its own id
C11_Witness ==
    /\ response.op = "login"
    /\ response.status = 200
    /\ response.body.access_token.sub = "2"
    /\ \E u \in users : u.id = 2 /\ u.mobile_number = request.username
    /\ request.password = CorrectPassword

\* what the server keeps: the PostgreSQL tables and the MongoDB collections
serverState == <<users, roles, databases, documents, document_chunks, next_doc_id,
                 database_connections, query_history>>

\* C12: logout changes no server state, and the token the client holds is
\* judged after the logout exactly as it was before it: a token that was
\* accepted stays accepted (nothing is revoked).
C12_LogoutIsStatelessNoOp ==
    [][Logout =>
        /\ UNCHANGED serverState
        /\ get_current_user(bearer)' = get_current_user(bearer)
        /\ JWTBearer(bearer)' = JWTBearer(bearer)]_vars

\* a logout has been answered, time has passed since the login, and the
\* token obtained before the logout is still accepted
C12_Witness ==
    /\ response.op = "logout"
    /\ response.status = 200
    /\ bearer # NoToken
    /\ bearer.key = SECRET_KEY
    /\ now > 0
    /\ get_current_user(bearer).kind = "return"
    /\ JWTBearer(bearer).kind = "return"

\* C13: after a successful delete of a document by its owner, neither the
\* document record nor any chunk with that document_id remains, and the
\* documents and chunks of other ids are as they were.
C13_DeleteCascadesToChunks ==
    [][(DeleteDocument /\ response'.status = 200) =>
        LET id == request'.document_id
        IN  /\ \E d \in documents : d._id = id /\ d.user_id = request'.user_id
            /\ \A d \in documents' : d._id # id
            /\ \A i \in 1..Len(document_chunks') : document_chunks'[i].document_id # id
            /\ documents' = {d \in documents : d._id # id}
            /\ document_chunks' =
                    SelectSeq(document_chunks, LAMBDA c : c.document_id # id)]_vars

\* document 1 has been deleted, with its chunks, while the store still
\* holds document 2 and the chunks of document 2
C13_Witness ==
    /\ response.op = "delete"
    /\ response.status = 200
    /\ request.document_id = 1
    /\ \A d \in documents : d._id = 2
    /\ \E d \in documents : d.chunk_count = 2
    /\ Len(document_chunks) = 2
    /\ \A i \in 1..Len(document_chunks) : document_chunks[i].document_id = 2

(***************************************************************************)
(* The SQL agent: agents/sql_agent.py, the /database routes of             *)
(* apis/database.py and the MCP tools of agents/mcp_helpers/server.py.     *)
(***************************************************************************)
MaxDbConnections == 1
MaxHistory == 2
MaxTables == 2

\* connection ids as the client sends them, written like document ids
ConnectionIdStrings == 0..(MaxDbConnections + 1)

\* the public tables of the target database
TableNames == {"users", "orders"}
TableLists == UNION {[1..n -> TableNames] : n \in 0..MaxTables}

\* what information_schema holds about a table
information_schema(table_name) ==
    IF table_name = "users"
    THEN [columns |-> <<[name |-> "id", type |-> "integer", nullable |-> "NO"]>>,
          primary_keys |-> <<"id">>,
          foreign_keys |-> <<>>]
    ELSE [columns |-> <<[name |-> "id", type |-> "integer", nullable |-> "NO"],
                        [name |-> "user_id", type |-> "integer", nullable |-> "NO"],
                        [name |-> "amount", type |-> "numeric", nullable |-> "YES"]>>,
          primary_keys |-> <<"id">>,
          foreign_keys |-> <<[column |-> "user_id", foreign_table |-> "users",
                              foreign_column |-> "id"]>>]

\* SQLAgent.get_table_schema when the three catalogue queries succeed
table_schema(table_name) ==
    [table_name |-> table_name,
     columns |-> information_schema(table_name).columns,
     primary_keys |-> information_schema(table_name).primary_keys,
     foreign_keys |-> information_schema(table_name).foreign_keys]

\* SQLAgent.get_table_schema(table_name): connected is self.engine, failing
\* the tables whose catalogue queries raise in this call
get_table_schema(connected, failing, table_name) ==
    IF ~connected
    THEN Raise("ValueError", 0, "Database connection not established")
    ELSE IF table_name \in failing
    THEN Raise("OperationalError", 0, "server closed the connection unexpectedly")
    ELSE Return(table_schema(table_name))

\* the prompt of generate_sql_query: its "Table Schemas" and "Natural
\* Language Query" sections
SqlPrompt(natural_language_query, table_schemas) ==
    [table_schemas |-> table_schemas, question |-> natural_language_query]

\* self.client.chat.completions.create(...) of generate_sql_query and what
\* it answered: the message content, or the exception it raised
SqlCompletionCall(prompt, reply) == [api |-> "chat", prompt |-> prompt, reply |-> reply]
\* conn.execute(text(query), params or {}) of SQLAgent.execute_query
SqlExecution(query) == [api |-> "sql", query |-> query, params |-> <<>>]

\* statements the completion model may answer with
SelectIds == "SELECT id FROM users"
SelectAmounts == "SELECT amount FROM orders"
DropOrders == "DROP TABLE orders"
Malformed == "SELEC id FROM users"
Statements == {SelectIds, SelectAmounts, DropOrders, Malformed}

\* response.choices[0].message.content: a statement, bare or with white
\* space around it
Completions == {<<s>> : s \in Statements} \cup {<<Blank, SelectIds, Blank>>}

Questions == {"how many users"}

\* a cell of a result row, tagged with its Python type
Cell(type, value) == [type |-> type, value |-> value]

\* what the target database answers to conn.execute(text(query)) followed
\* by result.fetchall(): white space around a statement does not matter
Fetch(query) ==
    LET statement == SelectSeq(query, LAMBDA t : t # Blank)
    IN  IF statement = <<SelectIds>>
        THEN Return([columns |-> <<"id">>, rows |-> <<<<Cell("int", 1)>>>>])
        ELSE IF statement = <<SelectAmounts>>
        THEN Return([columns |-> <<"amount">>, rows |-> <<<<Cell("Decimal", 950)>>>>])
        ELSE IF statement = <<DropOrders>>
        THEN Raise("ResourceClosedError", 0,
                   "This result object does not return rows. It has been closed automatically.")
        ELSE Raise("ProgrammingError", 0, "syntax error at or near \"SELEC\"")

\* SQLAgent.execute_query that raises what the database raises
sql_execute_query_raising(query) ==
    IF Fetch(query).kind = "return"
    THEN Return([success |-> TRUE,
                 data |-> Fetch(query).body.rows,
                 columns |-> Fetch(query).body.columns,
                 row_count |-> Len(Fetch(query).body.rows)])
    ELSE Fetch(query)

\* SQLAgent.execute_query(query) on a connected agent: the except branch
\* returns the failure instead of raising it
sql_execute_query(query) ==
    IF Fetch(query).kind = "return"
    THEN Return([success |-> TRUE,
                 data |-> Fetch(query).body.rows,
                 columns |-> Fetch(query).body.columns,
                 row_count |-> Len(Fetch(query).body.rows)])
    ELSE Return([success |-> FALSE, error |-> Fetch(query).detail])

\* generate_sql_query without the .strip()
sql_query_of_unstripped(content) == content

\* sql_query = response.choices[0].message.content.strip()
sql_query_of(content) == strip(content)

\* whether bson can encode the result: it has no encoder for decimal.Decimal
bson_encodable(result) ==
    result.success =>
        \A i \in 1..Len(result.data) : \A j \in 1..Len(result.data[i]) :
            result.data[i][j].type # "Decimal"

\* mongo_db.database_connections.find_one({"_id": ObjectId(id), "user_id": user_id})
FindOwnedConnection(conns, id, user_id) ==
    {c \in conns : c._id = id /\ c.user_id = user_id}

\* the for loop of the /database/query handler: the first lookup that
\* raises ends it
RECURSIVE CollectSchemas(_, _, _, _)
CollectSchemas(connected, failing, tables, table_schemas) ==
    IF tables = <<>> THEN Return(table_schemas)
    ELSE LET schema == get_table_schema(connected, failing, Head(tables))
         IN  IF schema.kind = "raise" THEN schema
             ELSE CollectSchemas(connected, failing, Tail(tables),
                                 Append(table_schemas, schema.body))

\* the for loop of the sql_generate_query tool: try: ... except Exception: pass
RECURSIVE CollectSchemasOrPass(_, _, _, _)
CollectSchemasOrPass(connected, failing, tables, schemas) ==
    IF tables = <<>> THEN schemas
    ELSE LET schema == get_table_schema(connected, failing, Head(tables))
         IN  CollectSchemasOrPass(connected, failing, Tail(tables),
                 IF schema.kind = "raise" THEN schemas
                 ELSE Append(schemas, schema.body))

\* the record /database/query stores
HistoryRecord(_id, req, sql_query, result) ==
    [_id |-> _id, user_id |-> req.user_id, connection_id |-> req.connection_id,
     question |-> req.question, sql_query |-> sql_query, result |-> result]

QueryInfoRequest(user_id, connection_id, has_question, question, tables) ==
    [op |-> "sql_query", user_id |-> user_id, connection_id |-> connection_id,
     has_question |-> has_question, question |-> question, tables |-> tables]

\* What the environment does to one /database/query call: nothing, the
\* connection to the target database fails, a catalogue query fails, or the
\* completion call raises.
SqlFaults(req, conns) ==
    IF req.connection_id = MalformedId
       \/ FindOwnedConnection(conns, req.connection_id, req.user_id) = {}
    THEN {"none"}
    ELSE IF req.tables = <<>> THEN {"none", "connect"} \cup
                                   (IF req.has_question THEN {"completion"} ELSE {})
    ELSE IF ~req.has_question THEN {"none", "connect", "schema"}
    ELSE {"none", "connect", "schema", "completion"}

\* the body of the try block of the /database/query handler: its outcome,
\* the outbound calls it made and the history records it inserted
execute_query(req, fault, content, conns, history) ==
    IF req.connection_id = MalformedId
    THEN [outcome |-> Raise("InvalidId", 0, "not a valid ObjectId"),
          calls |-> <<>>, inserted |-> <<>>]
    ELSE IF FindOwnedConnection(conns, req.connection_id, req.user_id) = {}
    THEN [outcome |-> HTTPException(404, "Database connection not found"),
          calls |-> <<>>, inserted |-> <<>>]
    ELSE IF fault = "connect"
    THEN [outcome |-> Raise("OperationalError", 0, "could not connect to server"),
          calls |-> <<>>, inserted |-> <<>>]
    ELSE LET failing == IF fault = "schema" THEN {Head(req.tables)} ELSE {}
             table_schemas == CollectSchemas(TRUE, failing, req.tables, <<>>)
         IN  IF table_schemas.kind = "raise"
             THEN [outcome |-> table_schemas, calls |-> <<>>, inserted |-> <<>>]
             ELSE IF ~req.has_question
             THEN [outcome |-> Raise("KeyError", 0, "'question'"),
                   calls |-> <<>>, inserted |-> <<>>]
             ELSE LET prompt == SqlPrompt(req.question, table_schemas.body)
                      sql_query == sql_query_of(content)
                      result == sql_execute_query(sql_query)
                  IN  IF fault = "completion"
                      THEN [outcome |-> Raise("APIError", 0, "Connection error."),
                            calls |-> <<SqlCompletionCall(prompt,
                                            Raise("APIError", 0, "Connection error."))>>,
                            inserted |-> <<>>]
                      ELSE IF result.kind = "raise"
                      THEN [outcome |-> result,
                            calls |-> <<SqlCompletionCall(prompt, Return(content)),
                                        SqlExecution(sql_query)>>,
                            inserted |-> <<>>]
                      ELSE IF ~bson_encodable(result.body)
                      THEN [outcome |-> Raise("InvalidDocument", 0,
                                              "cannot encode object: Decimal"),
                            calls |-> <<SqlCompletionCall(prompt, Return(content)),
                                        SqlExecution(sql_query)>>,
                            inserted |-> <<>>]
                      ELSE [outcome |-> result,
                            calls |-> <<SqlCompletionCall(prompt, Return(content)),
                                        SqlExecution(sql_query)>>,
                            inserted |-> <<HistoryRecord(Len(history) + 1, req,
                                                         sql_query, result.body)>>]

\* connect_database (POST /database/connect)
ConnectDatabase ==
    \E user_id \in UserIds, has_keys \in BOOLEAN :
    LET _id == Cardinality(database_connections) + 1
    IN
        /\ Cardinality(database_connections) < MaxDbConnections
        /\ request' = [op |-> "connect", user_id |-> user_id, has_keys |-> has_keys]
        /\ outbound' = <<>>
        /\ IF ~has_keys
           THEN /\ response' = [op |-> "connect"] @@
                        ExceptException(Raise("KeyError", 0, "'name'"))
                /\ UNCHANGED database_connections
           ELSE /\ response' = [op |-> "connect"] @@
                        ExceptException(Return([id |-> _id, connection_id |-> _id,
                                                status |-> "connected"]))
                /\ database_connections' =
                        database_connections \cup {[_id |-> _id, user_id |-> user_id]}
        /\ UNCHANGED <<query_history, engine>>
        /\ UNCHANGED <<simVars, docStore, authVars, splitVars, agentVars, taskVars>>

\* get_tables (GET /database/tables)
GetTables ==
    \E user_id \in UserIds, connection_id \in ConnectionIdStrings,
       fault \in {"none", "connect"} :
    LET found == IF connection_id = MalformedId THEN {}
                 ELSE FindOwnedConnection(database_connections, connection_id, user_id)
        outcome ==
            IF connection_id = MalformedId
            THEN Raise("InvalidId", 0, "not a valid ObjectId")
            ELSE IF found = {}
            THEN HTTPException(404, "Database connection not found")
            ELSE IF fault = "connect"
            THEN Raise("OperationalError", 0, "could not connect to server")
            ELSE Return({[name |-> t] : t \in TableNames})
    IN
        /\ fault # "none" => found # {}
        /\ request' = [op |-> "tables", user_id |-> user_id,
                       connection_id |-> connection_id]
        /\ response' = [op |-> "tables"] @@ ExceptException(outcome)
        /\ outbound' = <<>>
        /\ UNCHANGED sqlVars
        /\ UNCHANGED <<simVars, docStore, authVars, splitVars, agentVars, taskVars>>

\* get_table_schema (GET /database/table/{table_name}/schema)
GetTableSchema ==
    \E user_id \in UserIds, connection_id \in ConnectionIdStrings,
       table_name \in TableNames, fault \in {"none", "connect", "schema"} :
    LET found == IF connection_id = MalformedId THEN {}
                 ELSE FindOwnedConnection(database_connections, connection_id, user_id)
        outcome ==
            IF connection_id = MalformedId
            THEN Raise("InvalidId", 0, "not a valid ObjectId")
            ELSE IF found = {}
            THEN HTTPException(404, "Database connection not found")
            ELSE IF fault = "connect"
            THEN Raise("OperationalError", 0, "could not connect to server")
            ELSE get_table_schema(TRUE, IF fault = "schema" THEN {table_name} ELSE {},
                                  table_name)
    IN
        /\ fault # "none" => found # {}
        /\ request' = [op |-> "table_schema", user_id |-> user_id,
                       connection_id |-> connection_id, table_name |-> table_name]
        /\ response' = [op |-> "table_schema"] @@ ExceptException(outcome)
        /\ outbound' = <<>>
        /\ UNCHANGED sqlVars
        /\ UNCHANGED <<simVars, docStore, authVars, splitVars, agentVars, taskVars>>

\* execute_query (POST /database/query)
ExecuteQuery ==
    \E user_id \in UserIds, connection_id \in ConnectionIdStrings,
       has_question \in BOOLEAN, question \in Questions, tables \in TableLists,
       content \in Completions :
    LET req == QueryInfoRequest(user_id, connection_id, has_question, question, tables)
    IN  \E fault \in SqlFaults(req, database_connections) :
        LET done == execute_query(req, fault, content, database_connections,
                                  query_history)
        IN
            /\ Len(query_history) < MaxHistory
            /\ request' = req
            /\ response' = [op |-> "sql_query"] @@ ExceptException(done.outcome)
            /\ outbound' = done.calls
            /\ query_history' = query_history \o done.inserted
            /\ UNCHANGED <<database_connections, engine>>
            /\ UNCHANGED <<simVars, docStore, authVars, splitVars, agentVars, taskVars>>

RECURSIVE Reverse(_)
Reverse(s) == IF s = <<>> THEN <<>> ELSE Append(Reverse(Tail(s)), Head(s))

\* query_history (GET /database/history): the caller's records, newest first
QueryHistory ==
    \E user_id \in UserIds :
    LET history == Reverse(SelectSeq(query_history, LAMBDA e : e.user_id = user_id))
    IN
        /\ request' = [op |-> "history", user_id |-> user_id]
        /\ response' = [op |-> "history"] @@
                ExceptException(Return([i \in 1..Len(history) |->
                    [id |-> history[i]._id,
                     connection_id |-> history[i].connection_id,
                     question |-> history[i].question,
                     sql_query |-> history[i].sql_query]]))
        /\ outbound' = <<>>
        /\ UNCHANGED sqlVars
        /\ UNCHANGED <<simVars, docStore, authVars, splitVars, agentVars, taskVars>>

\* what an MCP tool call answers
ToolResult(outcome) ==
    IF outcome.kind = "return"
    THEN [status |-> 0, isError |-> FALSE, body |-> outcome.body]
    ELSE [status |-> 0, isError |-> TRUE,
          body |-> [type |-> outcome.type, detail |-> outcome.detail]]

MaxMessages == 3

\* BaseAgent.update_context(message, role): one more entry in the
\* conversation history (the history the model keeps stops at MaxMessages)
update_context(context, message) ==
    IF Len(context.conversation_history) < MaxMessages
    THEN [context EXCEPT !.conversation_history = Append(@, message)]
    ELSE context

NotEstablished == Raise("ValueError", 0, "Database connection not established")

\* what a call does to the SQL agent: what it returns or raises, the
\* agent's context afterwards and its engine afterwards
AgentStep(outcome, context, agent_engine) ==
    [outcome |-> outcome, context |-> context, engine |-> agent_engine]

\* connection strings: one create_engine cannot parse, one of a server that
\* cannot be reached, one of the target database
ConnectionStrings == {"not a url", "postgresql://unreachable/db", "postgresql://target/db"}

\* the engine is bound to a server that answers
Reachable(agent_engine) == agent_engine = "postgresql://target/db"

\* if not self.engine: raise ValueError(...)
HasEngine(agent_engine) == agent_engine # None

\* SQLAgent._load_available_tables()
agent_load_available_tables(context, agent_engine) ==
    IF ~HasEngine(agent_engine) THEN AgentStep(NotEstablished, context, agent_engine)
    ELSE IF ~Reachable(agent_engine)
    THEN AgentStep(Raise("OperationalError", 0, "could not connect to server"),
                   context, agent_engine)
    ELSE AgentStep(Return(None),
                   update_context(
                       [context EXCEPT !.agent_state.available_tables =
                                           <<"orders", "users">>],
                       "Loaded available tables"),
                   agent_engine)

\* SQLAgent.connect_to_database(connection_string): create_engine opens no
\* connection, _load_available_tables is the first to use the server
agent_connect_to_database(context, agent_engine, connection_string) ==
    IF connection_string = "not a url"
    THEN AgentStep(Raise("ArgumentError", 0, "Could not parse SQLAlchemy URL"),
                   context, agent_engine)
    ELSE agent_load_available_tables(
            [conversation_history |-> <<"Database connection established">>,
             agent_state |-> [database_connected |-> TRUE, last_query |-> None,
                              available_tables |-> <<>>, current_schema |-> None]],
            connection_string)

\* SQLAgent.get_table_schema(table_name) with its context updates
agent_get_table_schema(context, agent_engine, failing, table_name) ==
    LET schema == get_table_schema(HasEngine(agent_engine),
                                   IF Reachable(agent_engine) THEN failing
                                   ELSE TableNames, table_name)
    IN  IF schema.kind = "raise" THEN AgentStep(schema, context, agent_engine)
        ELSE AgentStep(schema,
                       update_context(
                           [context EXCEPT !.agent_state.current_schema = table_name],
                           "Retrieved schema"),
                       agent_engine)

\* SQLAgent.execute_query(query) with its context updates
agent_execute_query(context, agent_engine, query) ==
    IF ~HasEngine(agent_engine) THEN AgentStep(NotEstablished, context, agent_engine)
    ELSE IF ~Reachable(agent_engine)
    THEN AgentStep(Return([success |-> FALSE, error |-> "could not connect to server"]),
                   update_context(context, "Query execution failed"), agent_engine)
    ELSE IF sql_execute_query(query).body.success
    THEN AgentStep(sql_execute_query(query),
                   update_context([context EXCEPT !.agent_state.last_query = query],
                                  "Executed query"),
                   agent_engine)
    ELSE AgentStep(sql_execute_query(query),
                   update_context(context, "Query execution failed"), agent_engine)

\* the context after the schemas the sql_generate_query tool collected
RECURSIVE ContextAfterSchemas(_, _)
ContextAfterSchemas(context, schemas) ==
    IF schemas = <<>> THEN context
    ELSE ContextAfterSchemas(
            update_context(
                [context EXCEPT !.agent_state.current_schema = Head(schemas).table_name],
                "Retrieved schema"),
            Tail(schemas))

\* the sql_connect tool
SqlConnect ==
    \E connection_string \in ConnectionStrings :
    LET done == agent_connect_to_database(sql_context, engine, connection_string)
    IN
        /\ request' = [op |-> "sql_connect", connection_string |-> connection_string]
        /\ response' = [op |-> "sql_connect"] @@
                ToolResult(IF done.outcome.kind = "raise" THEN done.outcome
                           ELSE Return([status |-> "connected",
                                        available_tables |->
                                            done.context.agent_state.available_tables]))
        /\ outbound' = <<>>
        /\ engine' = done.engine
        /\ sql_context' = done.context
        /\ UNCHANGED <<database_connections, query_history>>
        /\ UNCHANGED <<doc_agent_state, session, transport>>
        /\ UNCHANGED <<simVars, docStore, authVars, splitVars, taskVars>>

\* the sql_get_table_schema tool
SqlGetTableSchema ==
    \E table_name \in TableNames, failing \in SUBSET TableNames :
    LET done == agent_get_table_schema(sql_context, engine, failing, table_name)
    IN
        /\ failing \subseteq {table_name}
        /\ failing # {} => Reachable(engine)
        /\ request' = [op |-> "sql_get_table_schema", table_name |-> table_name]
        /\ response' = [op |-> "sql_get_table_schema"] @@ ToolResult(done.outcome)
        /\ outbound' = <<>>
        /\ sql_context' = done.context
        /\ UNCHANGED <<database_connections, query_history, engine>>
        /\ UNCHANGED <<doc_agent_state, session, transport>>
        /\ UNCHANGED <<simVars, docStore, authVars, splitVars, taskVars>>

\* the sql_execute_query tool
SqlExecuteQuery ==
    \E query \in {<<SelectIds>>, <<Malformed>>} :
    LET done == agent_execute_query(sql_context, engine, query)
    IN
        /\ request' = [op |-> "sql_execute_query", query |-> query]
        /\ response' = [op |-> "sql_execute_query"] @@ ToolResult(done.outcome)
        /\ outbound' = IF Reachable(engine) THEN <<SqlExecution(query)>> ELSE <<>>
        /\ sql_context' = done.context
        /\ UNCHANGED <<database_connections, query_history, engine>>
        /\ UNCHANGED <<doc_agent_state, session, transport>>
        /\ UNCHANGED <<simVars, docStore, authVars, splitVars, taskVars>>

\* the sql_generate_query tool
SqlGenerateQuery ==
    \E natural_language_query \in Questions, tables \in TableLists,
       failing \in SUBSET TableNames, content \in Completions,
       fault \in {"none", "completion"} :
    LET lost == IF Reachable(engine) THEN failing ELSE TableNames
        schemas == CollectSchemasOrPass(HasEngine(engine), lost, tables, <<>>)
        prompt == SqlPrompt(natural_language_query, schemas)
        asked == update_context(ContextAfterSchemas(sql_context, schemas),
                                natural_language_query)
    IN
        /\ failing # {} => Reachable(engine)
        /\ failing \subseteq {tables[i] : i \in 1..Len(tables)}
        /\ request' = [op |-> "sql_generate_query",
                       natural_language_query |-> natural_language_query,
                       tables |-> tables]
        /\ response' = [op |-> "sql_generate_query"] @@
                ToolResult(IF fault = "completion"
                           THEN Raise("APIError", 0, "Connection error.")
                           ELSE Return([sql_query |-> sql_query_of(content),
                                        tables |-> tables]))
        /\ outbound' = <<SqlCompletionCall(prompt,
                            IF fault = "completion"
                            THEN Raise("APIError", 0, "Connection error.")
                            ELSE Return(content))>>
        /\ sql_context' = IF fault = "completion" THEN asked
                          ELSE update_context(asked, "Generated SQL query")
        /\ UNCHANGED <<database_connections, query_history, engine>>
        /\ UNCHANGED <<doc_agent_state, session, transport>>
        /\ UNCHANGED <<simVars, docStore, authVars, splitVars, taskVars>>

InitSql ==
    /\ vec1 = <<>>
    /\ vec2 = <<>>
    /\ similarity = NotComputed
    /\ InitDocs
    /\ InitAccounts

NextSql ==
    \/ ConnectDatabase
    \/ GetTables
    \/ GetTableSchema
    \/ ExecuteQuery
    \/ QueryHistory
    \/ DeleteDocument

SpecSql == InitSql /\ [][NextSql]_vars

\* what a method of AgentMCPClient answers; reached says whether the call
\* got to the server
ClientResult(op, reached, outcome) ==
    [op |-> op, reached |-> reached] @@ ToolResult(outcome)

\* AgentMCPClient.connect(): the session is stored inside the
\* "async with websocket_client(...)" block and the method returns from
\* inside it, which closes the websocket on the way out
ClientConnect ==
    \E fault \in {"none", "refused", "initialize"} :
        /\ request' = [op |-> "client.connect"]
        /\ response' = ClientResult("client.connect", fault # "refused",
                CASE fault = "none" -> Return("session")
                  [] fault = "refused" -> Raise("ConnectionRefusedError", 0, "refused")
                  [] OTHER -> Raise("McpError", 0, "initialize failed"))
        /\ outbound' = <<>>
        /\ session' = IF fault = "refused" THEN session ELSE "session"
        /\ transport' = IF fault = "refused" THEN transport ELSE "closed"
        /\ UNCHANGED <<sql_context, doc_agent_state>>
        /\ UNCHANGED <<simVars, docStore, authVars, sqlVars, splitVars, taskVars>>

\* AgentMCPClient.disconnect()
ClientDisconnect ==
    /\ request' = [op |-> "client.disconnect"]
    /\ response' = ClientResult("client.disconnect",
                                session # None /\ transport = "open", Return(None))
    /\ outbound' = <<>>
    /\ session' = None
    /\ transport' = IF session # None /\ transport = "open" THEN "closed" ELSE transport
    /\ UNCHANGED <<sql_context, doc_agent_state>>
    /\ UNCHANGED <<simVars, docStore, authVars, sqlVars, splitVars, taskVars>>

\* AgentMCPClient.connect_to_database(connection_string): the sql_connect
\* tool through the stored session
ClientConnectToDatabase ==
    \E connection_string \in ConnectionStrings :
    LET done == agent_connect_to_database(sql_context, engine, connection_string)
        reached == session # None /\ transport = "open"
    IN
        /\ request' = [op |-> "client.connect_to_database",
                       connection_string |-> connection_string]
        /\ response' = ClientResult("client.connect_to_database", reached,
                IF session = None
                THEN Raise("RuntimeError", 0, "Not connected to MCP server")
                ELSE IF ~reached
                THEN Raise("ClosedResourceError", 0, "")
                ELSE IF done.outcome.kind = "raise" THEN done.outcome
                ELSE Return([status |-> "connected",
                             available_tables |->
                                 done.context.agent_state.available_tables]))
        /\ outbound' = <<>>
        /\ engine' = IF reached THEN done.engine ELSE engine
        /\ sql_context' = IF reached THEN done.context ELSE sql_context
        /\ UNCHANGED <<database_connections, query_history>>
        /\ UNCHANGED <<doc_agent_state, session, transport>>
        /\ UNCHANGED <<simVars, docStore, authVars, splitVars, taskVars>>

\* the MCP server, the tools of its one global SQL agent, and a client of it
NextMcp ==
    \/ SqlConnect
    \/ SqlGetTableSchema
    \/ SqlGenerateQuery
    \/ SqlExecuteQuery
    \/ ClientConnect
    \/ ClientDisconnect
    \/ ClientConnectToDatabase

SpecMcp == InitSql /\ [][NextMcp]_vars

(***************************************************************************)
(* The process_document tool of the MCP server (server.py:82-92) on its    *)
(* one global DocumentProcessor.                                           *)
(***************************************************************************)
MaxProcessed == 3

\* self.update_agent_state({...}) that ends process_document; a call that
\* raised never gets there
agent_state_overwriting(agent_state, file_path, processed) ==
    IF processed.kind = "raise" THEN agent_state
    ELSE [processed_files |-> Append(agent_state.processed_files, file_path),
          total_chunks |-> Len(processed.body),
          last_processed_file |-> file_path]

agent_state_after(agent_state, file_path, processed) ==
    IF processed.kind = "raise" THEN agent_state
    ELSE [processed_files |-> Append(agent_state.processed_files, file_path),
          total_chunks |-> agent_state.total_chunks + Len(processed.body),
          last_processed_file |-> file_path]

ProcessFaults(file, chunks) ==
    {fault \in UploadFaults(file, chunks) : fault.at # "insert"}

ProcessDocument ==
    \E file \in Filenames, text \in Texts :
    \E fault \in ProcessFaults(file, split_text(text, DefaultChunkSize)) :
    LET processed == process_document(file, text, fault)
    IN  /\ Len(doc_agent_state.processed_files) < MaxProcessed
        /\ request' = [op |-> "process_document", file_path |-> file, text |-> text]
        /\ response' = [op |-> "process_document"] @@
                ToolResult(IF processed.kind = "raise" THEN processed
                           ELSE Return([status |-> "processed", file_path |-> file,
                                        chunk_count |-> Len(processed.body)]))
        /\ outbound' = EmbeddingCalls(file, text, fault)
        /\ doc_agent_state' = agent_state_after(doc_agent_state, file, processed)
        /\ UNCHANGED <<sql_context, session, transport>>
        /\ UNCHANGED <<simVars, docStore, authVars, sqlVars, splitVars, taskVars>>

NextProcessor == ProcessDocument

SpecProcessor == InitSql /\ [][NextProcessor]_vars

(***************************************************************************)
(* The in-memory document service (test_main.py): the upload and delete    *)
(* handlers and the background task asyncio.create_task starts for every   *)
(* upload.  A document id is the number of the upload that made it;        *)
(* doc_objects[id] is the dict of that upload, which the documents list    *)
(* and the task both refer to; tasks[id] is where the task stands.         *)
(***************************************************************************)
MaxTestDocs == 2
MaxFileChunks == 2      \* most 1000-character slices an uploaded file holds

\* class ProcessingStatus
PENDING == "pending"
PROCESSING == "processing"
COMPLETED == "completed"
FAILED == "failed"

TestDocIds == 1..Len(doc_objects)

\* the slices of process_document_task: a file that cannot be read is
\* replaced by one line of mock content, and an empty text is one chunk
task_chunks(stored_files, document_id) ==
    IF \E f \in stored_files : f.path = document_id
    THEN LET f == CHOOSE f \in stored_files : f.path = document_id
         IN  IF f.slices = 0 THEN 1 ELSE f.slices
    ELSE 1

\* the chunk dicts the task appends for one document
TaskChunkRecords(document_id, n) ==
    [i \in 1..n |-> [document_id |-> document_id, chunk_index |-> i - 1]]

\* the document dict when the task ends: the last statements of the try
\* block, or the except branch
task_end_counting_failed(doc, chunks, raised) ==
    IF raised THEN [doc EXCEPT !.status = FAILED, !.chunk_count = chunks]
    ELSE [doc EXCEPT !.status = COMPLETED, !.chunk_count = chunks]

task_end(doc, chunks, raised) ==
    IF raised THEN [doc EXCEPT !.status = FAILED]
    ELSE [doc EXCEPT !.status = COMPLETED, !.chunk_count = chunks]

\* POST /documents/upload
TmUpload ==
    \E slices \in 0..MaxFileChunks, fault \in {"none", "save"} :
    LET document_id == Len(doc_objects) + 1
    IN  /\ Len(doc_objects) < MaxTestDocs
        /\ request' = [op |-> "tm_upload", slices |-> slices]
        /\ outbound' = <<>>
        /\ IF fault = "save"
           THEN /\ response' = [op |-> "tm_upload"] @@
                        ExceptException(Raise("OSError", 0, "No space left on device"))
                /\ UNCHANGED taskVars
           ELSE /\ response' = [op |-> "tm_upload"] @@
                        ExceptException(Return([document_id |-> document_id,
                                                status |-> PENDING]))
                /\ files' = files \cup {[path |-> document_id, slices |-> slices]}
                /\ doc_objects' = Append(doc_objects,
                                         [id |-> document_id, chunk_count |-> 0,
                                          status |-> PENDING])
                /\ test_documents' = Append(test_documents, document_id)
                /\ tasks' = Append(tasks, "created")
                /\ UNCHANGED test_document_chunks
        /\ UNCHANGED <<simVars, docStore, authVars, sqlVars, splitVars, agentVars>>

\* process_document_task up to "await asyncio.sleep(2)"
TaskStart(document_id) ==
    /\ document_id \in TestDocIds
    /\ tasks[document_id] = "created"
    /\ IF \E k \in 1..Len(test_documents) : test_documents[k] = document_id
       THEN /\ doc_objects' = [doc_objects EXCEPT ![document_id].status = PROCESSING]
            /\ tasks' = [tasks EXCEPT ![document_id] = "sleeping"]
       ELSE /\ tasks' = [tasks EXCEPT ![document_id] = "done"]
            /\ UNCHANGED doc_objects
    /\ UNCHANGED <<test_documents, test_document_chunks, files>>
    /\ UNCHANGED <<request, response, outbound>>
    /\ UNCHANGED <<simVars, docStore, authVars, sqlVars, splitVars, agentVars>>

\* process_document_task from the end of the sleep on: nothing in it awaits,
\* so it runs in one piece; raised_after is the number of chunks appended
\* when an exception ends the loop, -1 when none does
TaskFinish(document_id) ==
    /\ document_id \in TestDocIds
    /\ tasks[document_id] = "sleeping"
    /\ \E raised_after \in -1..(task_chunks(files, document_id) - 1) :
       LET n == task_chunks(files, document_id)
           appended == IF raised_after = -1 THEN n ELSE raised_after
       IN  /\ test_document_chunks' =
                    test_document_chunks \o TaskChunkRecords(document_id, appended)
           /\ doc_objects' = [doc_objects EXCEPT ![document_id] =
                                    task_end(@, n, raised_after # -1)]
    /\ tasks' = [tasks EXCEPT ![document_id] = "done"]
    /\ UNCHANGED <<test_documents, files>>
    /\ UNCHANGED <<request, response, outbound>>
    /\ UNCHANGED <<simVars, docStore, authVars, sqlVars, splitVars, agentVars>>

TaskStep(document_id) == TaskStart(document_id) \/ TaskFinish(document_id)

\* DELETE /documents/{document_id}
TmDelete ==
    \E document_id \in 1..MaxTestDocs :
        /\ request' = [op |-> "tm_delete", document_id |-> document_id]
        /\ outbound' = <<>>
        /\ IF \E k \in 1..Len(test_documents) : test_documents[k] = document_id
           THEN /\ response' = [op |-> "tm_delete"] @@
                        Unwrapped(Return([status |-> "success"]))
                /\ files' = {f \in files : f.path # document_id}
                /\ test_documents' =
                        SelectSeq(test_documents, LAMBDA d : d # document_id)
                /\ test_document_chunks' =
                        SelectSeq(test_document_chunks,
                                  LAMBDA c : c.document_id # document_id)
           ELSE /\ response' = [op |-> "tm_delete"] @@
                        Unwrapped(HTTPException(404, "Document not found"))
                /\ UNCHANGED <<files, test_documents, test_document_chunks>>
        /\ UNCHANGED <<doc_objects, tasks>>
        /\ UNCHANGED <<simVars, docStore, authVars, sqlVars, splitVars, agentVars>>

RunStart == \E document_id \in 1..MaxTestDocs : TaskStart(document_id)
RunFinish == \E document_id \in 1..MaxTestDocs : TaskFinish(document_id)

NextTasks ==
    \/ TmUpload
    \/ TmDelete
    \/ RunStart
    \/ RunFinish

SpecTasks == InitSql /\ [][NextTasks]_vars

\* the event loop runs every task it was given: a created task is started
\* and a sleeping one is woken when its two seconds are over
SpecTasksFair ==
    /\ InitSql
    /\ [][NextTasks]_vars
    /\ \A document_id \in 1..MaxTestDocs : WF_vars(TaskStep(document_id))

(***************************************************************************)
(* Properties of the /database routes and of the SQL agent.                *)
(***************************************************************************)
\* the request being answered names, by a well-formed id, a document or a
\* database connection the caller does not own or that does not exist
NamesMissingTarget(req) ==
    \/ /\ req.op = "delete"
       /\ req.document_id # MalformedId
       /\ FindOwnedDocument(documents, req.document_id, req.user_id) = {}
    \/ /\ req.op \in {"tables", "table_schema", "sql_query"}
       /\ req.connection_id # MalformedId
       /\ FindOwnedConnection(database_connections, req.connection_id, req.user_id) = {}

\* C14: a request naming a document or database connection that does not
\* exist, or that the caller does not own, is answered with HTTP 404
\* (delete_document, get_tables, get_table_schema, execute_query).
C14_MissingTargetGives404 ==
    [][NamesMissingTarget(request') => response'.status = 404]_vars

\* the prompt holds the metadata of every table of the list and the question
PromptCovers(prompt, question, tables) ==
    /\ prompt.question = question
    /\ \A k \in 1..Len(tables) :
          \E j \in 1..Len(prompt.table_schemas) :
              /\ prompt.table_schemas[j].table_name = tables[k]
              /\ prompt.table_schemas[j].columns = information_schema(tables[k]).columns
              /\ prompt.table_schemas[j].primary_keys =
                    information_schema(tables[k]).primary_keys
              /\ prompt.table_schemas[j].foreign_keys =
                    information_schema(tables[k]).foreign_keys

\* the /database/query route puts every requested table into its prompt
HttpPromptCoversRequestedTables ==
    request.op = "sql_query" =>
        \A i \in ChatCalls :
            PromptCovers(outbound[i].prompt, request.question, request.tables)

\* C15: for every list of requested tables, the prompt sent to the
\* completion model holds the column, primary-key and foreign-key metadata
\* of each requested table and the question; no requested table is left out
\* (the /database/query route and the sql_generate_query tool).
C15_PromptCoversRequestedTables ==
    /\ HttpPromptCoversRequestedTables
    /\ request.op = "sql_generate_query" =>
          \A i \in ChatCalls :
              PromptCovers(outbound[i].prompt, request.natural_language_query,
                           request.tables)

\* the statements the request being answered ran on the target database
SqlCalls == {i \in 1..Len(outbound) : outbound[i].api = "sql"}

\* the completion calls of the request being answered that returned a text
AnsweredChatCalls == {i \in ChatCalls : outbound[i].reply.kind = "return"}

\* C16: in /database/query the SQL text executed against the target database
\* is the text returned by the completion model with its leading and
\* trailing white space removed, and every text the model returns is
\* executed, whatever the statement: nothing validates, filters, rewrites
\* or parameterizes it in between.
C16_ExecutesStrippedCompletion ==
    request.op = "sql_query" =>
        /\ \A i \in SqlCalls :
              /\ i > 1
              /\ (i - 1) \in AnsweredChatCalls
              /\ outbound[i].query = strip(outbound[i - 1].reply.body)
              /\ outbound[i].params = <<>>
        /\ \A j \in AnsweredChatCalls :
              /\ (j + 1) \in SqlCalls
              /\ outbound[j + 1].query = strip(outbound[j].reply.body)

\* C16 as stated: the executed text is exactly the text the model returned
C16_Original_ExecutesExactCompletion ==
    request.op = "sql_query" =>
        \A i \in SqlCalls :
            /\ i > 1
            /\ (i - 1) \in AnsweredChatCalls
            /\ outbound[i].query = outbound[i - 1].reply.body

\* a completion with white space around a statement was executed, and so
\* was a statement that is not a SELECT
C16_Witness ==
    /\ request.op = "sql_query"
    /\ \E i \in SqlCalls :
          /\ outbound[i - 1].reply.body = <<Blank, SelectIds, Blank>>
          /\ outbound[i].query = <<SelectIds>>

\* C17: every /database/query call that generates SQL persists exactly one
\* query-history record holding the caller's user id, the connection id,
\* the question, the generated SQL and the execution result; a call that
\* aborts before generation persists none, and no call modifies earlier
\* history records.
C17_OneHistoryRecordPerGeneratedQuery ==
    [][request'.op = "sql_query" =>
        LET generated == {i \in 1..Len(outbound') :
                            /\ outbound'[i].api = "chat"
                            /\ outbound'[i].reply.kind = "return"}
            executed == {i \in 1..Len(outbound') : outbound'[i].api = "sql"}
        IN  /\ SubSeq(query_history', 1, Len(query_history)) = query_history
            /\ generated = {} => query_history' = query_history
            /\ generated # {} =>
                  /\ Len(query_history') = Len(query_history) + 1
                  /\ \E i \in executed :
                        LET entry == query_history'[Len(query_history')]
                        IN  /\ entry.user_id = request'.user_id
                            /\ entry.connection_id = request'.connection_id
                            /\ entry.question = request'.question
                            /\ entry.sql_query = outbound'[i].query
                            /\ entry.result = sql_execute_query(outbound'[i].query).body
    ]_vars

\* the statements of the request being answered that the target database
\* rejected
FailedSqlCalls == {i \in SqlCalls : Fetch(outbound[i].query).kind = "raise"}

\* C18: when executing the generated SQL against the target database fails,
\* /database/query answers HTTP 200 with the body {success: false, error:
\* the raw exception string} and stores that body in the history record; a
\* failure of the completion call is answered HTTP 500 carrying the raw
\* exception string.
C18_SqlFailureIsReturnedInBody ==
    request.op = "sql_query" =>
        /\ \A i \in FailedSqlCalls :
              /\ response.status = 200
              /\ response.body.success = FALSE
              /\ response.body.error = Fetch(outbound[i].query).detail
              /\ query_history # <<>>
              /\ query_history[Len(query_history)].result = response.body
        /\ \A j \in ChatCalls \ AnsweredChatCalls :
              /\ response.status = 500
              /\ response.body.detail = outbound[j].reply.detail

\* C18 as stated: a failing SQL execution is answered HTTP 500 carrying the
\* raw exception string
C18_Original_SqlFailureGives500 ==
    request.op = "sql_query" =>
        \A i \in FailedSqlCalls :
            /\ response.status = 500
            /\ response.body.detail = Fetch(outbound[i].query).detail

\* a malformed statement was generated, executed and rejected
C18_Witness ==
    /\ request.op = "sql_query"
    /\ \E i \in FailedSqlCalls : outbound[i].query = <<Malformed>>
    /\ response.status = 200
    /\ response.body.success = FALSE

(***************************************************************************)
(* Properties of the route table.                                          *)
(***************************************************************************)
\* C19: the admin CRUD endpoints are served directly under /admin/: for an
\* admin token, GET /admin/users (the URL test_admin_api.py calls) runs the
\* user-listing handler and is not answered 404.
C19_AdminUsersUrlResolves ==
    [][(HttpGet(ADMIN_USERS_URL) /\ get_current_admin(bearer).kind = "return") =>
            /\ response'.op = "admin_list_users"
            /\ response'.status # 404]_vars

(***************************************************************************)
(* DocumentProcessor._split_text on its own: any text, any chunk_size.     *)
(***************************************************************************)
MaxWord == 3
MaxSplitPieces == 3
MaxChunkSize == 4

\* texts of short words: a piece is a blank (0) or a run of 1..MaxWord
\* non-blank characters
SplitTexts == UNION {[1..n -> 0..MaxWord] : n \in 0..MaxSplitPieces}

InitSplit ==
    /\ vec1 = <<>>
    /\ vec2 = <<>>
    /\ similarity = NotComputed
    /\ InitDocs
    /\ users = {Superuser}
    /\ roles = {}
    /\ databases = {}
    /\ bearer = NoToken
    /\ now = 0
    /\ database_connections = {}
    /\ query_history = <<>>
    /\ engine = None
    /\ InitAgents
    /\ doc_text \in SplitTexts
    /\ doc_chunk_size \in 1..MaxChunkSize
    /\ doc_chunks = NotSplit

\* chunks = self._split_text(text, chunk_size)
SplitText ==
    /\ doc_chunks = NotSplit
    /\ doc_chunks' = [done |-> TRUE, chunks |-> split_text(doc_text, doc_chunk_size)]
    /\ UNCHANGED <<doc_text, doc_chunk_size>>
    /\ UNCHANGED <<simVars, docVars, authVars, sqlVars, agentVars, taskVars>>

NextSplit == SplitText

SpecSplit == InitSplit /\ [][NextSplit]_vars

\* C20: every chunk emitted by _split_text(text, chunk_size) is non-empty
\* and has at most chunk_size characters, for every text and every
\* chunk_size >= 1.
C20_ChunksNonEmptyAndBounded ==
    doc_chunks.done =>
        \A i \in 1..Len(doc_chunks.chunks) :
            /\ doc_chunks.chunks[i] # <<>>
            /\ JoinedLen(doc_chunks.chunks[i]) <= doc_chunk_size

\* when no word is as long as chunk_size, the chunks are non-empty and
\* within chunk_size
ShortWordsGiveBoundedChunks ==
    (doc_chunks.done /\ \A k \in 1..Len(split(doc_text)) :
                            split(doc_text)[k] < doc_chunk_size) =>
        \A i \in 1..Len(doc_chunks.chunks) :
            /\ doc_chunks.chunks[i] # <<>>
            /\ JoinedLen(doc_chunks.chunks[i]) <= doc_chunk_size

\* " ".join(current_chunk), as a text: the words with one blank between them
RECURSIVE join(_)
join(words) ==
    IF words = <<>> THEN <<>>
    ELSE IF Len(words) = 1 THEN words
    ELSE <<Head(words), 0>> \o join(Tail(words))

\* the words of the chunks, read in chunk order
RECURSIVE WordsOfChunks(_)
WordsOfChunks(chunks) ==
    IF chunks = <<>> THEN <<>>
    ELSE split(join(Head(chunks))) \o WordsOfChunks(Tail(chunks))

\* C21: _split_text loses, duplicates and reorders nothing: the
\* whitespace-separated words of the chunks, read in chunk order, are exactly
\* the whitespace-separated words of the input text, and an input with no
\* words yields no chunks.
C21_SplitKeepsWords ==
    doc_chunks.done =>
        /\ WordsOfChunks(doc_chunks.chunks) = split(doc_text)
        /\ split(doc_text) = <<>> => doc_chunks.chunks = <<>>

\* a text of two different words was split into two chunks of one word
C21_Witness ==
    /\ doc_chunks.done
    /\ Len(split(doc_text)) = 2
    /\ split(doc_text)[1] # split(doc_text)[2]
    /\ Len(doc_chunks.chunks) = 2
    /\ \A i \in 1..2 : Len(doc_chunks.chunks[i]) = 1

(***************************************************************************)
(* The SQL agent behind the MCP tools.                                     *)
(***************************************************************************)

SqlAgentOps == {"sql_get_table_schema", "sql_execute_query"}

IsNotEstablished(resp) ==
    /\ resp.isError
    /\ resp.body.type = "ValueError"
    /\ resp.body.detail = "Database connection not established"

\* an agent on which connect_to_database never got as far as binding an
\* engine refuses every operation and keeps its context
NoEngineRefuses ==
    [][(request'.op \in SqlAgentOps /\ ~HasEngine(engine)) =>
            /\ IsNotEstablished(response')
            /\ sql_context' = sql_context
            /\ outbound' = <<>>]_vars

NoEngineRefuses_Witness ==
    /\ request.op = "sql_execute_query"
    /\ ~HasEngine(engine)
    /\ IsNotEstablished(response)

\* C22: an operation on an SQL agent that has no connection to a database
\* (the shared agent of the MCP server before sql_connect connected it)
\* raises ValueError('Database connection not established') and leaves the
\* agent's context and state unchanged
C22_NoOperationBeforeConnection ==
    [][(request'.op \in SqlAgentOps /\ ~Reachable(engine)) =>
            /\ IsNotEstablished(response')
            /\ sql_context' = sql_context]_vars

(***************************************************************************)
(* The MCP client.                                                         *)
(***************************************************************************)

\* C30: after AgentMCPClient.connect() returned a session the websocket
\* under that session is open, it stays open until disconnect() is called,
\* and a call made through a stored session reaches the server
C30_SessionUsableUntilDisconnect ==
    [][/\ (request'.op = "client.connect" /\ ~response'.isError) =>
                (session' # None /\ transport' = "open")
       /\ (transport = "open" /\ request'.op # "client.disconnect") =>
                transport' = "open"
       /\ (request'.op = "client.connect_to_database" /\ session # None) =>
                response'.reached]_vars

\* a client that never connected is told so and the server is not called
ClientWithoutSessionRefuses ==
    [][(request'.op = "client.connect_to_database" /\ session = None) =>
            /\ response'.isError
            /\ response'.body.type = "RuntimeError"
            /\ UNCHANGED <<engine, sql_context>>]_vars

(***************************************************************************)
(* The document processor's agent state.                                   *)
(***************************************************************************)

\* C23: a process_document call that completes adds the chunk count it
\* returned to agent_state.total_chunks, appends its file path to
\* processed_files and makes it last_processed_file; a call that raises
\* leaves the three fields as they were.  So after any sequence of calls
\* total_chunks is the sum of the returned counts and processed_files the
\* completed paths in call order.
C23_AgentStateTracksCompletedCalls ==
    /\ [](doc_agent_state.last_processed_file =
            IF doc_agent_state.processed_files = <<>> THEN NoFile
            ELSE doc_agent_state.processed_files[Len(doc_agent_state.processed_files)])
    /\ [][request'.op = "process_document" =>
            IF response'.isError
            THEN doc_agent_state' = doc_agent_state
            ELSE /\ doc_agent_state'.total_chunks =
                        doc_agent_state.total_chunks + response'.body.chunk_count
                 /\ doc_agent_state'.processed_files =
                        Append(doc_agent_state.processed_files, request'.file_path)
                 /\ doc_agent_state'.last_processed_file = request'.file_path]_vars

\* two calls completed with three chunks between them, then one raised
C23_Witness ==
    /\ request.op = "process_document"
    /\ response.isError
    /\ Len(doc_agent_state.processed_files) = 2
    /\ doc_agent_state.total_chunks = 3

(***************************************************************************)
(* Background processing in the in-memory document service.                *)
(***************************************************************************)
Terminal == {COMPLETED, FAILED}

Listed(document_id) ==
    \E k \in 1..Len(test_documents) : test_documents[k] = document_id

\* one step of a document's status: none, or one step forward
StatusStep(before, after) ==
    \/ after = before
    \/ before = PENDING /\ after = PROCESSING
    \/ before = PROCESSING /\ after \in Terminal

\* C24: an uploaded document starts PENDING with chunk_count 0, its status
\* only moves PENDING -> PROCESSING -> COMPLETED or FAILED and never leaves
\* COMPLETED or FAILED, chunk_count is non-zero only when the status is
\* COMPLETED, and every document that stays in the list eventually is
\* COMPLETED or FAILED.
C24_ProcessingLifecycle ==
    /\ [](\A id \in TestDocIds :
            doc_objects[id].chunk_count # 0 => doc_objects[id].status = COMPLETED)
    /\ [][/\ \A id \in TestDocIds :
                StatusStep(doc_objects[id].status, doc_objects'[id].status)
          /\ Len(doc_objects') > Len(doc_objects) =>
                /\ doc_objects'[Len(doc_objects')].status = PENDING
                /\ doc_objects'[Len(doc_objects')].chunk_count = 0]_vars
    /\ \A id \in 1..MaxTestDocs :
            (id \in TestDocIds /\ Listed(id)) ~>
                (~Listed(id) \/ doc_objects[id].status \in Terminal)

\* one document completed with two chunks and another failed, both listed
C24_Witness ==
    /\ Len(doc_objects) = 2
    /\ Listed(1) /\ Listed(2)
    /\ \E a, b \in TestDocIds :
        /\ doc_objects[a].status = COMPLETED /\ doc_objects[a].chunk_count = 2
        /\ doc_objects[b].status = FAILED /\ doc_objects[b].chunk_count = 0

\* C25: every stored chunk's document_id is the id of a document that is
\* still in the documents list, in every reachable state, also when a delete
\* runs while the document's background task is under way.
C25_NoOrphanChunks ==
    \A i \in 1..Len(test_document_chunks) : Listed(test_document_chunks[i].document_id)

\* while no delete has run, chunks do belong to listed documents
NoOrphansWithoutDelete ==
    (\A id \in TestDocIds : Listed(id)) => C25_NoOrphanChunks

(***************************************************************************)
(* Uploads and the chunk counts they record.                               *)
(***************************************************************************)

\* every document record has as many stored chunks as its chunk_count says
ChunkCountsMatch ==
    \A d \in documents : Len(ChunksOf(d._id)) = d.chunk_count

\* C26: every stored document record has exactly chunk_count stored chunks
\* carrying its id, in every state reached through upload, and an upload
\* that fails (also part-way through inserting its chunks) leaves no
\* document record and no chunks behind.
C26_UploadIsAllOrNothing ==
    /\ []ChunkCountsMatch
    /\ [][(request'.op = "upload" /\ response'.status # 200) =>
                /\ documents' = documents
                /\ document_chunks' = document_chunks]_vars

(***************************************************************************)
(* Whose documents a query reads.                                          *)
(***************************************************************************)
OwnDocuments(user_id) == {d \in documents : d.user_id = user_id}

OwnChunks(user_id) ==
    FindChunks(document_chunks, {d._id : d \in OwnDocuments(user_id)})

\* C27: what POST /documents/query returns to a user, and the context it
\* sends to the completion model, are what they would be if the store held
\* only that user's documents and chunks, whatever document ids the request
\* names.
C27_QueryReadsOnlyOwnDocuments ==
    (request.op = "query" /\ response.status = 200) =>
        LET alone == query_documents(request, "none", OwnDocuments(request.user_id),
                                     OwnChunks(request.user_id))
        IN  /\ response.body = alone.outcome.body
            /\ outbound = alone.calls

\* a query that names only documents of the caller reads only those
OwnIdsReadOwnDocuments ==
    (/\ request.op = "query"
     /\ response.status = 200
     /\ \A id \in request.ids : \A d \in documents : d._id = id => d.user_id = request.user_id)
        => C27_QueryReadsOnlyOwnDocuments

(***************************************************************************)
(* POST /admin/users/{id}/roles.                                           *)
(***************************************************************************)

\* C29: a successful POST /admin/users/{id}/roles leaves the user with
\* exactly the roles named in role_ids and changes no other account, so the
\* same call again changes nothing; a call naming a role that does not exist
\* is answered 404, and every call that fails leaves all stored roles as
\* they were.
C29_AssignRolesReplaces ==
    [][AdminAssignRoles =>
        IF response'.status = 200
        THEN /\ \A u \in users' :
                    u.id = request'.user_id => u.roles = request'.role_ids
             /\ {u \in users' : u.id # request'.user_id} =
                    {u \in users : u.id # request'.user_id}
             /\ \A u \in users' : \E v \in users :
                    v.id = u.id /\ [v EXCEPT !.roles = u.roles] = u
        ELSE /\ users' = users
             /\ (/\ get_current_admin(bearer).kind = "return"
                 /\ get_user_by_id(request'.user_id) # {}
                 /\ \E id \in request'.role_ids : RoleById(id) = {})
                    => response'.status = 404]_vars

\* a user who held roles was given a different, non-empty set
C29_Witness ==
    /\ request.op = "admin_assign_roles"
    /\ response.status = 200
    /\ request.role_ids = {2}
    /\ \E u \in users : u.id = request.user_id /\ u.roles = {2}

\* a call naming a missing role was refused and the roles are still there
C29_RefusedWitness ==
    /\ request.op = "admin_assign_roles"
    /\ response.status = 404
    /\ \E id \in request.role_ids : RoleById(id) = {}
    /\ \E u \in users : u.id = request.user_id /\ u.roles # {}

(***************************************************************************)
(* PUT and DELETE /database/connections/{id}.                              *)
(***************************************************************************)
ChangesConnection == UpdateConnection \/ DeleteConnection

\* the caller's role, the primary one or one of the assigned ones, is admin
HasAdminRole(user) ==
    \E r \in roles : r.name = "admin" /\ (r.id = user.role_id \/ r.id \in user.roles)

\* C28: update and delete of a stored connection change it only when the
\* caller owns it or has the admin role; any other authenticated caller is
\* answered 403, or 404 when the connection does not exist, and the stored
\* connections stay as they were.
C28_OnlyOwnerOrAdminChangesConnection ==
    [][(ChangesConnection /\ get_current_user(bearer).kind = "return") =>
        LET caller == get_current_user(bearer).body
            target == FindConnection(request'.connection_id)
        IN  IF target = {}
            THEN response'.status = 404 /\ databases' = databases
            ELSE IF One(target).user_id = caller.id \/ HasAdminRole(caller)
            THEN TRUE
            ELSE response'.status = 403 /\ databases' = databases]_vars

\* whoever is neither the owner nor an admin changes nothing
StrangerChangesNothing ==
    [][(ChangesConnection /\ get_current_user(bearer).kind = "return") =>
        LET caller == get_current_user(bearer).body
            target == FindConnection(request'.connection_id)
        IN  (target = {} \/ (One(target).user_id # caller.id /\ ~HasAdminRole(caller)))
                => databases' = databases]_vars

StrangerWitness ==
    /\ request.op = "update_connection"
    /\ response.status = 500
    /\ databases # {}

OwnerWitness ==
    /\ request.op = "update_connection"
    /\ response.status = 200
    /\ \E c \in databases : c.name = "renamed"

====
